---------------------------- MODULE Spec2Model ----------------------------
(***************************************************************************)
(* Model of the MIIM shell bridge of the Viper evaluation board            *)
(* (src/phy_demo_appl/appl/vtss_appl_board_viper_eval_mdiotools.c):        *)
(* hex_string_to_uint16, miim_read, miim_write and viper_board_init, with  *)
(* the external "mdio" tool as the environment.                            *)
(*                                                                         *)
(* Characters are their ASCII codes, C strings are sequences of codes, and *)
(* a buffer is a function from its indices to codes (or Uninit).           *)
(***************************************************************************)
EXTENDS Integers, Sequences, FiniteSets, TLC

(***************************************************************************)
(* Bounds of the model.                                                    *)
(***************************************************************************)
\* longest unstructured stdout the tool produces for a register command
MaxLen == 4
\* longest stdout the tool produces for the discovery command
MaxDiscLen == 4
\* pipes of register calls that may be open at once before the caller stops
MaxOpen == 2

(***************************************************************************)
(* Program constants.                                                      *)
(***************************************************************************)
\* vtss_rc of a successful call (miim_read line 131, miim_write line 160)
VTSS_RC_OK == 0
\* the value of every "return -1" / "rc = -1"
RC_ERROR == -1
\* index of the terminator miim_read stores: output[6] = '\0'
TokenEnd == 6
\* sizeof(output) in miim_read, sizeof(test_output) in viper_board_init
OutputSize == 1024
\* sizeof(output) in miim_write
WriteOutputSize == 512
\* '\0'
NUL == 0
\* a buffer cell that was never written
Uninit == -1

ASCII == [lf |-> 10, sp |-> 32, plus |-> 43, minus |-> 45, zero |-> 48,
          X |-> 88, x |-> 120, z |-> 122, esc |-> 27, lbr |-> 91,
          seven |-> 55, m |-> 109, D |-> 68]

U8  == 256
U16 == 65536

(***************************************************************************)
(* libc as the bridge uses it.                                             *)
(***************************************************************************)
\* isspace() of the "C" locale, which strtol skips
IsSpace(c) == c \in 9..13 \/ c = ASCII.sp

\* the value of a base-16 digit, -1 for any other character
HexVal(c) ==
  IF c \in 48..57 THEN c - 48
  ELSE IF c \in 97..102 THEN c - 87
  ELSE IF c \in 65..70 THEN c - 55
  ELSE -1

RECURSIVE SkipSpace(_)
SkipSpace(s) ==
  IF s # <<>> /\ IsSpace(Head(s)) THEN SkipSpace(Tail(s)) ELSE s

RECURSIVE Accum16(_, _)
Accum16(s, acc) ==
  IF s # <<>> /\ HexVal(Head(s)) >= 0
  THEN Accum16(Tail(s), 16 * acc + HexVal(Head(s)))
  ELSE acc

\* strtol(s, NULL, 16) of a NUL-terminated string s (given without its NUL):
\* white space, an optional sign, an optional 0x/0X that a hex digit follows,
\* then the longest run of hex digits; 0 when there is none.
strtol16(s) ==
  LET t   == SkipSpace(s)
      neg == t # <<>> /\ Head(t) = ASCII.minus
      u   == IF t # <<>> /\ Head(t) \in {ASCII.plus, ASCII.minus} THEN Tail(t) ELSE t
      v   == IF Len(u) >= 3 /\ u[1] = ASCII.zero /\ u[2] \in {ASCII.x, ASCII.X}
                /\ HexVal(u[3]) >= 0
             THEN SubSeq(u, 3, Len(u)) ELSE u
      mag == Accum16(v, 0)
  IN IF neg THEN -mag ELSE mag

\* strlen of a buffer b (a sequence of cells holding a NUL): the cells before
\* the first NUL
RECURSIVE CString(_)
CString(b) ==
  IF b = <<>> \/ Head(b) = NUL THEN <<>> ELSE <<Head(b)>> \o CString(Tail(b))

\* memmove(b, b + from, n) on a buffer b (1-indexed: cell i is b[i-1] in C)
Memmove(b, from, n) ==
  [i \in 1..Len(b) |-> IF i <= n /\ i + from <= Len(b) THEN b[i + from] ELSE b[i]]

\* (uint8_t) and (uint16_t) conversions of an int
ToU8(n)  == n % U8
ToU16(n) == n % U16

(***************************************************************************)
(* hex_string_to_uint16 (lines 66-88).  hex_str is the C string passed,    *)
(* without its NUL.                                                        *)
(***************************************************************************)
\* a byte-swapped recombination: (low << 8) | high
hex_string_to_uint16_swapped(hex_str) ==
  LET dup      == hex_str \o <<NUL>>
      stripped == IF dup[1] = ASCII.zero /\ dup[2] = ASCII.x
                  THEN Memmove(dup, 2, Len(hex_str) - 1) ELSE dup
      str      == CString(stripped)
  IN IF Len(str) # 4 THEN ToU16(-1)
     ELSE ToU16(ToU8(strtol16(SubSeq(str, 3, 4))) * 256
                + ToU8(strtol16(SubSeq(str, 1, 2))))

hex_string_to_uint16(hex_str) ==
  LET dup      == hex_str \o <<NUL>>                      \* strdup
      stripped == IF dup[1] = ASCII.zero /\ dup[2] = ASCII.x
                  THEN Memmove(dup, 2, Len(hex_str) - 1) ELSE dup
      str      == CString(stripped)
  IN IF Len(str) # 4 THEN ToU16(-1)                        \* return -1
     ELSE LET high_byte_val == ToU8(strtol16(SubSeq(str, 1, 2)))
              low_byte_val  == ToU8(strtol16(SubSeq(str, 3, 4)))
          IN ToU16(high_byte_val * 256 + low_byte_val)

(***************************************************************************)
(* The conversion test of miim_read (line 125): "*value == -1" compares a   *)
(* uint16_t, promoted to int without change of value, with the int -1.      *)
(***************************************************************************)
\* the comparison done in 16 bits: *value == (uint16_t)-1
ConversionFailed_u16(v) == v = ToU16(-1)

ConversionFailed(v) == v = -1

(***************************************************************************)
(* The status miim_write derives from its one fgets (lines 155-160); line  *)
(* is <<>> for a NULL result, else the characters read (at least one).     *)
(***************************************************************************)
\* success also when the only output is a line break
miim_write_rc_blank_ok(line) ==
  IF line # <<>> /\ line # <<ASCII.lf>> THEN RC_ERROR ELSE VTSS_RC_OK

miim_write_rc(line) == IF line # <<>> THEN RC_ERROR ELSE VTSS_RC_OK

(***************************************************************************)
(* fgets(buf, size, stream): NULL at end of file with nothing read (the     *)
(* buffer is left alone), else the characters up to and including the first *)
(* line break, at most size-1 of them.                                      *)
(***************************************************************************)
RECURSIVE FirstLF(_)
FirstLF(s) ==
  IF s = <<>> THEN 0 ELSE IF Head(s) = ASCII.lf THEN 1 ELSE 1 + FirstLF(Tail(s))

Min(a, b) == IF a <= b THEN a ELSE b

Fgets(stream, size) ==
  IF stream = <<>> THEN [line |-> <<>>, rest |-> <<>>]
  ELSE LET n == Min(size - 1, FirstLF(stream))
       IN [line |-> SubSeq(stream, 1, n), rest |-> SubSeq(stream, n + 1, Len(stream))]

\* what a successful fgets leaves in the cells of buf: the line, then a NUL
StoreLine(buf, chars) ==
  [i \in DOMAIN buf |->
     IF i < Len(chars) THEN chars[i + 1]
     ELSE IF i = Len(chars) THEN NUL ELSE buf[i]]

\* an fgets that returns only once it has read a line break
FgetsReturns_at_line_end(stream, eof) ==
  \E i \in 1..Len(stream) : stream[i] = ASCII.lf

\* fgets waits until the pipe holds something to read or is at end of file
FgetsReturns(stream, eof) == stream # <<>> \/ eof

\* the cells of a buffer as a sequence, cell 0 first
Cells(buf) == [i \in 1..Cardinality(DOMAIN buf) |-> buf[i - 1]]

\* an automatic array before anything is stored in it
Fresh(last) == [i \in 0..last |-> Uninit]

\* the bytes an unwritten cell may turn out to hold
GarbageBytes == {NUL, ASCII.zero, 70}

\* the contents the cells may show when read as a C string: a cell never
\* written holds any byte, and a cell behind the end of the string is not read
RECURSIVE ResolveString(_)
ResolveString(cells) ==
  IF cells = <<>> THEN {<<>>}
  ELSE IF Head(cells) = NUL THEN {cells}
  ELSE IF Head(cells) = Uninit
  THEN {<<g>> \o (IF g = NUL THEN Tail(cells) ELSE r) :
          g \in GarbageBytes, r \in ResolveString(Tail(cells))}
  ELSE {<<Head(cells)>> \o r : r \in ResolveString(Tail(cells))}

\* the contents buf may show when read, all of it (whole) or as a C string
Resolve(buf, whole) ==
  IF whole
  THEN {[i \in DOMAIN buf |-> IF buf[i] = Uninit THEN g[i] ELSE buf[i]] :
          g \in [DOMAIN buf -> GarbageBytes]}
  ELSE {[i \in DOMAIN buf |-> r[i + 1]] : r \in ResolveString(Cells(buf))}

(***************************************************************************)
(* The command lines built by snprintf (lines 98 and 141), as the words    *)
(* the shell splits them into.                                             *)
(***************************************************************************)
RECURSIVE Digits(_)
Digits(n) == IF n < 10 THEN <<48 + n>> ELSE Digits(n \div 10) \o <<48 + (n % 10)>>

\* %u of an unsigned value
FmtU(n) == Digits(n)

\* %i of an int value (every port_no of the model is below 2^31, so the
\* unsigned port_no reads as the same int)
FmtI(n) == IF n < 0 THEN <<ASCII.minus>> \o Digits(-n) ELSE Digits(n)

ReadCommand(port, a) ==
  <<"sudo", "mdio", "gpio-0", "phy", FmtI(port), "raw", FmtI(a)>>

\* the same with the last two arguments of snprintf exchanged
WriteCommand_swapped(port, a, v) ==
  <<"sudo", "mdio", "gpio-0", "phy", FmtU(port), "raw", FmtI(v), FmtU(a)>>

WriteCommand(port, a, v) ==
  <<"sudo", "mdio", "gpio-0", "phy", FmtU(port), "raw", FmtI(a), FmtU(v)>>

(***************************************************************************)
(* viper_board_init: the discovery test (lines 238-241) and the six writes *)
(* that set the signal detect polarity (lines 246-252).                    *)
(***************************************************************************)
Header == <<ASCII.esc, ASCII.lbr, ASCII.seven, ASCII.m>>

\* t: the cells test_output[0..3]
DiscoveryFailed(t) ==
  t[0] # Header[1] /\ t[1] # Header[2] /\ t[2] # Header[3] /\ t[3] # Header[4]

\* the last write, which selects page 0 of port 3 again, left out
InitWrites_unrestored ==
  << <<0, 31, 1>>, <<0, 19, 1>>, <<0, 31, 0>>,
     <<3, 31, 1>>, <<3, 19, 1>> >>

\* <<port_no, addr, value>> of each miim_write, in program order
\* register 19 of port 3 written before register 31 selects its page
InitWrites_page_late ==
  << <<0, 31, 1>>, <<0, 19, 1>>, <<0, 31, 0>>,
     <<3, 19, 1>>, <<3, 31, 1>>, <<3, 31, 0>> >>

InitWrites ==
  << <<0, 31, 1>>, <<0, 19, 1>>, <<0, 31, 0>>,
     <<3, 31, 1>>, <<3, 19, 1>>, <<3, 31, 0>> >>

(***************************************************************************)
(* The environment: what the external tool prints.                         *)
(***************************************************************************)
RECURSIVE SeqsUpTo(_, _)
SeqsUpTo(S, n) ==
  IF n = 0 THEN {<<>>}
  ELSE LET P == SeqsUpTo(S, n - 1) IN P \cup {Append(q, c) : q \in P, c \in S}

\* the hex digits the tool's tokens are made of: 0 9 a A F
HexSample == {48, 57, 97, 65, 70}
\* the characters of its other output: line break, 0, x, F, z
OtherChars == {ASCII.lf, ASCII.zero, ASCII.x, 70, ASCII.z}

Tokens == {<<a, b, c, d>> : a \in HexSample, b \in HexSample,
                            c \in HexSample, d \in HexSample}
Prefix0x == <<ASCII.zero, ASCII.x>>

\* a 4-hex-digit token, with or without 0x, with or without a line break
TokenOutputs ==
  {pre \o t \o nl : pre \in {<<>>, Prefix0x}, t \in Tokens, nl \in {<<>>, <<ASCII.lf>>}}

\* anything a register command may print
StdoutSet ==
  SeqsUpTo(OtherChars, MaxLen) \cup TokenOutputs \cup {<<ASCII.sp>>, <<NUL>>}

\* several lines: a token line 0x00a9 or 0x0001 before or behind another
\* line, the last line with and without its line break
ManyLines ==
  {Prefix0x \o <<48, 48, 97, 57, ASCII.lf>> \o <<ASCII.z, ASCII.lf>>,
   <<ASCII.z, ASCII.lf>> \o Prefix0x \o <<48, 48, 97, 57, ASCII.lf>>,
   Prefix0x \o <<48, 48, 97, 57, ASCII.lf>> \o Prefix0x \o <<48, 48, 48, 49>>,
   Prefix0x \o <<48, 48, 48, 49, ASCII.lf>> \o <<ASCII.lf>>}

\* a short list of the same: nothing, an empty line, a word, a token line with
\* and without 0x, and the outputs of several lines
FewStdout ==
  {<<>>, <<ASCII.lf>>, <<ASCII.z>>,
   Prefix0x \o <<48, 48, 97, 57, ASCII.lf>>, <<48, 48, 97, 57, ASCII.lf>>}
  \cup ManyLines

\* the exit statuses of the child: success and failure.  They are varied
\* with the short list of outputs only.
ExitCodes == {0, 1}

\* anything the discovery command may print
DiscChars == {ASCII.esc, ASCII.lbr, ASCII.seven, ASCII.m, ASCII.sp, ASCII.lf}
DiscSet == SeqsUpTo(DiscChars, MaxDiscLen)

(***************************************************************************)
(* A stub tool that remembers the last value written per (port, addr),     *)
(* prints nothing on a write and the stored value as a 4-hex-digit token   *)
(* on a read.  Its print format is one of StubFormats.                     *)
(***************************************************************************)
Ports  == {0, 3}
Addrs  == {19, 31}
Values == {0, 1, 6699, 65535}
\* what *value may hold before a miim_read
PriorValues == {0, 48879}
RegKeys == Ports \X Addrs
\* with the short list of outputs: the ends of the address range, and the
\* values a caller holding a wider integer may ask miim_write for
FewAddrs  == {0, 31, 255}
FewValues == {0, 65535, 65536, 70000}
\* with two threads: one port, the page register and a paged register, the
\* two pages
MtPorts  == {0}
MtValues == {0, 1}

RECURSIVE ParseDec(_, _)
ParseDec(s, acc) ==
  IF s = <<>> THEN acc ELSE ParseDec(Tail(s), 10 * acc + (Head(s) - 48))

HexDigit(d, upper) == IF d < 10 THEN 48 + d ELSE IF upper THEN 55 + d ELSE 87 + d

Fmt04x(v, upper) ==
  <<HexDigit(v \div 4096, upper), HexDigit((v \div 256) % 16, upper),
    HexDigit((v \div 16) % 16, upper), HexDigit(v % 16, upper)>>

StubFormats == [prefix : BOOLEAN, newline : BOOLEAN, upper : BOOLEAN]

StubKey(cmd) == <<ParseDec(cmd[5], 0), ParseDec(cmd[7], 0)>>

\* the stub's stdout for cmd
StubReply(cmd, store, fmt) ==
  IF Len(cmd) = 8 THEN <<>>
  ELSE (IF fmt.prefix THEN Prefix0x ELSE <<>>)
       \o Fmt04x(store[StubKey(cmd)], fmt.upper)
       \o (IF fmt.newline THEN <<ASCII.lf>> ELSE <<>>)

\* the stub's store after cmd
StubStore(cmd, store) ==
  IF Len(cmd) = 8 THEN [store EXCEPT ![StubKey(cmd)] = ParseDec(cmd[8], 0)]
  ELSE store

(***************************************************************************)
(* State.                                                                  *)
(***************************************************************************)
VARIABLES
  tool,          \* "any": the tool prints anything; "stub": the stub above;
                 \* "few": it prints one of FewStdout
  stub_fmt,      \* the stub's print format
  regs,          \* the stub's store
  app,           \* "boot", "init" (in viper_board_init), "run", "init_failed", "exited"
  warm,          \* board->init.init_conf->warm_start_enable = TRUE
  cb_installed,  \* init_conf->miim_read / miim_write are set
  ipc,           \* position in viper_board_init
  init_ret,      \* <<>>, or <<r>> once viper_board_init returned r
  disc_open,     \* the pipe of the discovery command is open
  disc_stream,   \* what is left to read from it
  test_output,   \* test_output[0..3]
  disc_begins,   \* history: the discovery stdout begins with Header
  writes,        \* history: the miim_write calls of viper_board_init
  fn,            \* the bridge function running: "none", "miim_read", "miim_write"
  mpc,           \* its position: "idle", "popen", "fgets", "parse", "pclose", "ret"
  port_no, addr, wvalue,   \* its arguments
  wreq,          \* history: the value the caller of miim_write asked for
  command,       \* command[]
  pipe,          \* "none", "NULL", "open", "closed"
  stream,        \* what is left to read from the pipe
  captured,      \* history: the whole stdout of the child
  output,        \* miim_read's output[0..6]
  value,         \* *value
  value0,        \* history: *value when miim_read was called
  rc,            \* the status returned (mpc = "ret"); in miim_write, rc
  n_popen, n_fgets, n_pclose,  \* history: calls made by the running function
  exit_code,     \* the exit status of the child, which pclose returns
  child_done,    \* the child has closed its stdout and exited
  miim_open,     \* pipes opened by miim_read / miim_write and not closed
  lastw,         \* history: per register, <<v>> once miim_write of v returned OK
  memo,          \* history: <<>>, or <<c>> with c one earlier call and its result
  write_failed,  \* history: a miim_write of viper_board_init returned an error
  th2            \* a second thread of the application: the bridge function it
                 \* runs, with that call's arguments and locals

envvars  == <<tool, stub_fmt, regs>>
initvars == <<app, warm, cb_installed, ipc, init_ret, disc_open, disc_stream,
              test_output, disc_begins, writes>>
callvars == <<fn, mpc, port_no, addr, wvalue, wreq, command, pipe, stream, captured,
              output, value, value0, rc, n_popen, n_fgets, n_pclose,
              exit_code, child_done>>
\* meba_initialize and pcb123_init_board (src/meba/src/my_own/meba.c)
VARIABLES
  mbpc,          \* position in meba_initialize / pcb123_init_board
  callouts_size, \* the argument, against sizeof(*callouts)
  configured,    \* history: <<>>, or <<n>> once conf_get("board") gave the name n
  board_name,    \* board_name[]: <<>> while nothing is stored in it, else <<name>>
  instance,      \* the pointer: "uninit", "valid" (from meba_state_alloc), "wild"
  props,         \* instance->props
  board,         \* *board, the private data of the instance
  api,           \* instance->api, and api_synce, api_tod, api_poe
  meba_rc,       \* rc of meba_initialize
  pcb_rc,        \* rc of pcb123_init_board
  mux_conf,      \* history: <<>>, or <<i>> once meba_conf_get_u32 gave i
  answers,       \* history: what mebaux_miim_rd and mesa_sgpio_conf_set returned
  calls,         \* history: the functions called so far, in order
  ret            \* <<>>, or <<r>> once meba_initialize returned r

mebavars == <<mbpc, callouts_size, configured, board_name, instance, props, board,
              api, meba_rc, pcb_rc, mux_conf, answers, calls, ret>>
\* the register address macros (vtss_laguna_regs_rb.h, vtss_laguna_regs_ptp.h)
VARIABLES
  reg_a, reg_b,  \* two uses of a register macro of one target: register and indices
  off_a, off_b   \* <<>>, or <<o>> with o the offset the macro gave

regvars == <<reg_a, reg_b, off_a, off_b>>
othervars == <<th2, mebavars, regvars>>
bridgevars == <<envvars, initvars, callvars, miim_open, lastw, memo, write_failed, th2>>

\* no register macro is used
NoAccess == [target |-> "none", reg |-> 0, gi |-> 0, ri |-> 0]
RegsIdle == reg_a = NoAccess /\ reg_b = NoAccess /\ off_a = <<>> /\ off_b = <<>>

\* my_board_type_t
BOARD_TYPE_VSC7514_PCB123 == 0
BOARD_TYPE_LAN9668_UNG8290 == 1
\* board->port_cnt = 10
PortCnt == 10

\* the entries of instance->api that meba_initialize assigns, one that it
\* leaves alone, and the three tables behind api
ApiAssigned ==
  {"meba_capability", "meba_port_entry_get", "meba_reset", "meba_sensor_get",
   "meba_sfp_i2c_xfer", "meba_sfp_insertion_status_get", "meba_sfp_status_get",
   "meba_port_admin_state_set", "meba_status_led_set", "meba_port_led_update",
   "meba_irq_handler", "meba_irq_requested", "meba_event_enable",
   "meba_deinitialize", "meba_ptp_rs422_conf_get", "meba_ptp_external_io_conf_get"}
ApiLeft == {"meba_led_intensity_set"}
ApiTables == {"api_synce", "api_tod", "api_poe"}
ApiEntries == ApiAssigned \cup ApiLeft \cup ApiTables

\* there is no instance yet: nothing behind the pointer
NoProps == [target |-> "none", mux_mode |-> "none", board_type |-> <<>>, name |-> "none"]
\* (a field of *board is <<>> until a value v is stored in it, then <<v>>)
NoBoard == [board_type |-> <<>>, port_cnt |-> <<>>]
NoApi == [e \in ApiEntries |-> "none"]

\* meba_initialize has been called and has run nothing yet (lines 140-152)
MebaEntry ==
  /\ mbpc = "size"
  /\ configured = <<>>
  /\ board_name = <<>>
  /\ instance = "uninit"
  /\ props = NoProps
  /\ board = NoBoard
  /\ api = NoApi
  /\ meba_rc = "0"
  /\ pcb_rc = "uninit"
  /\ mux_conf = <<>>
  /\ answers = [miim_rd |-> "none", sgpio_conf_set |-> "none"]
  /\ calls = <<>>
  /\ ret = <<>>
vars == <<envvars, initvars, callvars, miim_open, lastw, memo, write_failed, othervars>>

\* the tool is the stub: "mt" is the stub with the short argument lists
Stubbed == tool \in {"stub", "mt"}

\* the second thread runs no bridge function
NoCall2 ==
  [fn |-> "none", mpc |-> "idle", port_no |-> 0, addr |-> 0, wvalue |-> 0,
   command |-> <<>>, pipe |-> "none", stream |-> <<>>, child_done |-> FALSE,
   output |-> Fresh(TokenEnd), value |-> 0, rc |-> 0]

\* no bridge function is running
NoCall ==
  /\ fn = "none" /\ mpc = "idle"
  /\ port_no = 0 /\ addr = 0 /\ wvalue = 0 /\ command = <<>>
  /\ pipe = "none" /\ stream = <<>> /\ captured = <<>>
  /\ output = Fresh(TokenEnd) /\ value = 0 /\ value0 = 0 /\ rc = 0
  /\ n_popen = 0 /\ n_fgets = 0 /\ n_pclose = 0
  /\ wreq = 0 /\ exit_code = 0 /\ child_done = FALSE

Init ==
  /\ tool \in {"any", "stub"}
  /\ stub_fmt \in IF tool = "stub" THEN StubFormats
                  ELSE {[prefix |-> TRUE, newline |-> TRUE, upper |-> FALSE]}
  /\ regs = [k \in RegKeys |-> 0]
  /\ app = "boot"
  /\ warm \in BOOLEAN
  /\ cb_installed = FALSE
  /\ ipc = "none"
  /\ init_ret = <<>>
  /\ disc_open = FALSE
  /\ disc_stream = <<>>
  /\ test_output = Fresh(3)
  /\ disc_begins = FALSE
  /\ writes = <<>>
  /\ NoCall
  /\ miim_open = 0
  /\ lastw = [k \in RegKeys |-> <<>>]
  /\ memo = <<>>
  /\ write_failed = FALSE
  /\ th2 = NoCall2
  /\ MebaEntry /\ callouts_size = "equal"
  /\ RegsIdle

(***************************************************************************)
(* viper_board_init (lines 193-255).                                       *)
(***************************************************************************)
\* the same without lines 214-244: a cold start goes to the writes at once
BoardInitCall_no_discovery ==
  /\ app = "boot"
  /\ cb_installed' = TRUE
  /\ IF warm
     THEN /\ app' = "run"
          /\ init_ret' = <<0>>
          /\ ipc' = "none"
     ELSE /\ app' = "init"
          /\ init_ret' = init_ret
          /\ ipc' = "writes"
  /\ UNCHANGED <<envvars, warm, disc_open, disc_stream, test_output, disc_begins,
                 writes, callvars, miim_open, lastw, memo, write_failed,
                 othervars>>

\* the same without the test of line 212: a warm start is brought up as well
BoardInitCall_always_cold ==
  /\ app = "boot"
  /\ cb_installed' = TRUE
  /\ app' = "init"
  /\ init_ret' = init_ret
  /\ ipc' = "disc_popen"
  /\ UNCHANGED <<envvars, warm, disc_open, disc_stream, test_output, disc_begins,
                 writes, callvars, miim_open, lastw, memo, write_failed,
                 othervars>>

\* lines 195-212, and line 254 on a warm start
BoardInitCall ==
  /\ app = "boot"
  /\ cb_installed' = TRUE
  /\ IF warm
     THEN /\ app' = "run"
          /\ init_ret' = <<0>>
          /\ ipc' = "none"
     ELSE /\ app' = "init"
          /\ init_ret' = init_ret
          /\ ipc' = "disc_popen"
  /\ UNCHANGED <<envvars, warm, disc_open, disc_stream, test_output, disc_begins,
                 writes, callvars, miim_open, lastw, memo, write_failed,
                 othervars>>

\* line 225, popen succeeds: the tool runs and prints s
DiscPopenOk ==
  /\ app = "init" /\ ipc = "disc_popen"
  /\ \E s \in IF tool = "stub" THEN {Header \o <<ASCII.sp, ASCII.D>>} ELSE DiscSet :
       /\ disc_stream' = s
       /\ disc_begins' = (Len(s) >= 4 /\ SubSeq(s, 1, 4) = Header)
  /\ disc_open' = TRUE
  /\ ipc' = "disc_fgets"
  /\ UNCHANGED <<envvars, app, warm, cb_installed, init_ret, test_output,
                 writes, callvars, miim_open, lastw, memo, write_failed,
                 othervars>>

\* lines 225-229, popen fails: return -1
DiscPopenFail ==
  /\ app = "init" /\ ipc = "disc_popen"
  /\ tool # "stub"
  /\ init_ret' = <<RC_ERROR>>
  /\ app' = "init_failed"
  /\ ipc' = "none"
  /\ UNCHANGED <<envvars, warm, cb_installed, disc_open, disc_stream, test_output,
                 disc_begins, writes, callvars, miim_open, lastw, memo, write_failed,
                 othervars>>

\* line 232: one fgets, its result not looked at
DiscFgets ==
  /\ app = "init" /\ ipc = "disc_fgets"
  /\ LET r == Fgets(disc_stream, OutputSize)
     IN /\ test_output' = IF r.line # <<>> THEN StoreLine(test_output, r.line)
                          ELSE test_output
        /\ disc_stream' = r.rest
  /\ ipc' = "disc_check"
  /\ UNCHANGED <<envvars, app, warm, cb_installed, init_ret, disc_open,
                 disc_begins, writes, callvars, miim_open, lastw, memo, write_failed,
                 othervars>>

\* lines 238-244: the test of test_output[0..3]; exit(EXIT_SUCCESS) when it fails.
\* test_output and the unread rest of the pipe are never used again.
DiscCheck ==
  /\ app = "init" /\ ipc = "disc_check"
  /\ \E t \in Resolve(test_output, TRUE) :
       IF DiscoveryFailed(t)
       THEN app' = "exited" /\ ipc' = "none"
       ELSE app' = app /\ ipc' = "writes"
  /\ test_output' = Fresh(3)
  /\ disc_stream' = <<>>
  /\ UNCHANGED <<envvars, warm, cb_installed, init_ret, disc_open, disc_begins,
                 writes, callvars, miim_open, lastw, memo, write_failed,
                 othervars>>

\* the same with a value parameter wide enough to hold what the caller passes
EnterCall_wide(f, p, a, v, prior) ==
  /\ fn' = f /\ mpc' = "popen"
  /\ port_no' = p /\ addr' = a /\ wreq' = v /\ wvalue' = v
  /\ command' = IF f = "miim_read" THEN ReadCommand(p, a) ELSE WriteCommand(p, a, v)
  /\ pipe' = "none" /\ stream' = <<>> /\ captured' = <<>>
  /\ output' = Fresh(TokenEnd)
  /\ value' = prior /\ value0' = prior
  /\ rc' = RC_ERROR
  /\ n_popen' = 0 /\ n_fgets' = 0 /\ n_pclose' = 0
  /\ exit_code' = 0 /\ child_done' = FALSE

\* entry of miim_read / miim_write: the arguments (value converted to the
\* uint16_t of the parameter), the locals, snprintf
EnterCall(f, p, a, v, prior) ==
  /\ fn' = f /\ mpc' = "popen"
  /\ port_no' = p /\ addr' = a /\ wreq' = v /\ wvalue' = ToU16(v)
  /\ command' = IF f = "miim_read" THEN ReadCommand(p, a)
                ELSE WriteCommand(p, a, ToU16(v))
  /\ pipe' = "none" /\ stream' = <<>> /\ captured' = <<>>
  /\ output' = Fresh(TokenEnd)
  /\ value' = prior /\ value0' = prior
  /\ rc' = RC_ERROR
  /\ n_popen' = 0 /\ n_fgets' = 0 /\ n_pclose' = 0
  /\ exit_code' = 0 /\ child_done' = FALSE

\* lines 246-252: the next miim_write(NULL, port, addr, value)
InitWrite ==
  /\ app = "init" /\ ipc = "writes" /\ fn = "none"
  /\ Len(writes) < Len(InitWrites)
  /\ LET w == InitWrites[Len(writes) + 1]
     IN /\ EnterCall("miim_write", w[1], w[2], w[3], 0)
        /\ writes' = Append(writes, w)
  /\ UNCHANGED <<envvars, app, warm, cb_installed, ipc, init_ret, disc_open,
                 disc_stream, test_output, disc_begins, miim_open, lastw, memo, write_failed,
                 othervars>>

\* line 254 after the writes: return 0
InitReturn ==
  /\ app = "init" /\ ipc = "writes" /\ fn = "none"
  /\ Len(writes) = Len(InitWrites)
  /\ init_ret' = <<0>>
  /\ app' = "run"
  /\ ipc' = "none"
  /\ UNCHANGED <<envvars, warm, cb_installed, disc_open, disc_stream, test_output,
                 disc_begins, writes, callvars, miim_open, lastw, memo, write_failed,
                 othervars>>

(***************************************************************************)
(* The PHY API calling the installed callbacks.                            *)
(***************************************************************************)
\* the arguments the callers pass, by the tool's mode
ApiPorts  == IF tool = "mt" THEN MtPorts ELSE Ports
ApiAddrs  == IF tool = "few" THEN FewAddrs ELSE Addrs
ApiValues == CASE tool = "few" -> FewValues [] tool = "mt" -> MtValues [] OTHER -> Values
ApiPriors == IF tool = "mt" THEN {0} ELSE PriorValues

\* were the bridge behind a lock: a thread may enter a bridge function only
\* while the other thread runs none
CanEnter_locked(other) == other = "none"

\* lines 92-103, 134-144: what a thread entering miim_read or miim_write
\* waits for while the other thread runs the bridge function other: nothing,
\* the functions take no lock and test no flag
CanEnter(other) == TRUE

ApiRead ==
  /\ app = "run" /\ cb_installed /\ fn = "none"
  /\ CanEnter(th2.fn)
  /\ miim_open < MaxOpen
  /\ \E p \in ApiPorts, a \in ApiAddrs, prior \in ApiPriors :
       EnterCall("miim_read", p, a, 0, prior)
  /\ UNCHANGED <<envvars, initvars, miim_open, lastw, memo, write_failed, othervars>>

ApiWrite ==
  /\ app = "run" /\ cb_installed /\ fn = "none"
  /\ CanEnter(th2.fn)
  /\ miim_open < MaxOpen
  /\ \E p \in ApiPorts, a \in ApiAddrs, v \in ApiValues :
       EnterCall("miim_write", p, a, v, 0)
  /\ UNCHANGED <<envvars, initvars, miim_open, lastw, memo, write_failed, othervars>>

(***************************************************************************)
(* miim_read (lines 92-132).                                               *)
(***************************************************************************)
\* what the child prints for command, and what it does to the stub's store
Spawn ==
  /\ \E s \in CASE Stubbed       -> {StubReply(command, regs, stub_fmt)}
                 [] tool = "few"  -> FewStdout
                 [] OTHER         -> StdoutSet :
       stream' = s /\ captured' = s
  /\ exit_code' \in IF tool = "few" THEN ExitCodes ELSE {0}
  /\ child_done' = FALSE
  /\ regs' = IF Stubbed THEN StubStore(command, regs) ELSE regs
  /\ pipe' = "open"
  /\ n_popen' = n_popen + 1
  /\ miim_open' = miim_open + 1
  /\ mpc' = "fgets"

\* popen returned NULL, and the status returned is VTSS_RC_OK
SpawnFailed_rc_ok ==
  /\ tool # "stub"
  /\ pipe' = "NULL"
  /\ n_popen' = n_popen + 1
  /\ rc' = VTSS_RC_OK
  /\ mpc' = "ret"

\* popen returned NULL: perror, return -1
SpawnFailed ==
  /\ tool # "stub"
  /\ pipe' = "NULL"
  /\ n_popen' = n_popen + 1
  /\ rc' = RC_ERROR
  /\ mpc' = "ret"

\* line 104, popen succeeds
ReadPopenOk ==
  /\ fn = "miim_read" /\ mpc = "popen"
  /\ Spawn
  /\ UNCHANGED <<tool, stub_fmt, initvars, fn, port_no, addr, wvalue, wreq, command,
                 output, value, value0, rc, n_fgets, n_pclose, lastw, memo, write_failed,
                 othervars>>

\* lines 104-110, popen fails
ReadPopenFail ==
  /\ fn = "miim_read" /\ mpc = "popen"
  /\ SpawnFailed
  /\ UNCHANGED <<envvars, initvars, fn, port_no, addr, wvalue, wreq, command, stream,
                 captured, output, value, value0, n_fgets, n_pclose, miim_open, lastw, memo,
                 write_failed, exit_code, child_done, othervars>>

\* the same keeping the first line: the later lines are read and dropped
ReadFgets_first_line ==
  /\ fn = "miim_read" /\ mpc = "fgets"
  /\ FgetsReturns(stream, child_done)
  /\ LET r == Fgets(stream, OutputSize)
     IN /\ output' = IF r.line # <<>> /\ n_fgets = 0 THEN StoreLine(output, r.line)
                      ELSE output
        /\ stream' = r.rest
        /\ mpc' = IF r.line # <<>> THEN "fgets" ELSE "parse"
  /\ n_fgets' = n_fgets + 1
  /\ UNCHANGED <<envvars, initvars, fn, port_no, addr, wvalue, wreq, command, pipe,
                 captured, value, value0, rc, n_popen, n_pclose, miim_open, lastw, memo,
                 write_failed, exit_code, child_done,
                 othervars>>

\* line 113: one fgets of the loop
ReadFgets ==
  /\ fn = "miim_read" /\ mpc = "fgets"
  /\ FgetsReturns(stream, child_done)
  /\ LET r == Fgets(stream, OutputSize)
     IN /\ output' = IF r.line # <<>> THEN StoreLine(output, r.line) ELSE output
        /\ stream' = r.rest
        /\ mpc' = IF r.line # <<>> THEN "fgets" ELSE "parse"
  /\ n_fgets' = n_fgets + 1
  /\ UNCHANGED <<envvars, initvars, fn, port_no, addr, wvalue, wreq, command, pipe,
                 captured, value, value0, rc, n_popen, n_pclose, miim_open, lastw, memo,
                 write_failed, exit_code, child_done, othervars>>

\* lines 123-128: output[6] = '\0', the conversion, and return -1 when it failed
ReadParse ==
  /\ fn = "miim_read" /\ mpc = "parse"
  /\ \E b \in Resolve([output EXCEPT ![TokenEnd] = NUL], FALSE) :
       /\ output' = b
       /\ value' = hex_string_to_uint16(CString(Cells(b)))
  /\ IF ConversionFailed(value')
     THEN rc' = RC_ERROR /\ mpc' = "ret"
     ELSE rc' = rc /\ mpc' = "pclose"
  /\ UNCHANGED <<envvars, initvars, fn, port_no, addr, wvalue, wreq, command, pipe,
                 stream, captured, value0, n_popen, n_fgets, n_pclose, miim_open, lastw, memo,
                 write_failed, exit_code, child_done, othervars>>

\* lines 129-131: pclose, return VTSS_RC_OK
ReadPclose ==
  /\ fn = "miim_read" /\ mpc = "pclose"
  /\ child_done
  /\ pipe' = "closed"
  /\ n_pclose' = n_pclose + 1
  /\ miim_open' = miim_open - 1
  /\ rc' = VTSS_RC_OK
  /\ mpc' = "ret"
  /\ UNCHANGED <<envvars, initvars, fn, port_no, addr, wvalue, wreq, command, stream,
                 captured, output, value, value0, n_popen, n_fgets, lastw, memo,
                 write_failed, exit_code, child_done, othervars>>

\* the child closes its stdout and exits.  The pipe keeps what the child
\* printed, so this shows only to an fgets with nothing left to read (it
\* returns NULL instead of waiting) and to pclose (it returns instead of
\* waiting).
ChildFinish ==
  /\ pipe = "open" /\ ~child_done
  /\ stream = <<>> \/ mpc = "pclose"
  /\ child_done' = TRUE
  /\ UNCHANGED <<envvars, initvars, fn, mpc, port_no, addr, wvalue, wreq, command,
                 pipe, stream, captured, output, value, value0, rc, n_popen,
                 n_fgets, n_pclose, exit_code, miim_open, lastw, memo, write_failed,
                 othervars>>

(***************************************************************************)
(* miim_write (lines 134-165).                                             *)
(***************************************************************************)
\* line 145, popen succeeds
WritePopenOk ==
  /\ fn = "miim_write" /\ mpc = "popen"
  /\ Spawn
  /\ UNCHANGED <<tool, stub_fmt, initvars, fn, port_no, addr, wvalue, wreq, command,
                 output, value, value0, rc, n_fgets, n_pclose, lastw, memo, write_failed,
                 othervars>>

\* lines 145-151, popen fails
WritePopenFail ==
  /\ fn = "miim_write" /\ mpc = "popen"
  /\ SpawnFailed
  /\ UNCHANGED <<envvars, initvars, fn, port_no, addr, wvalue, wreq, command, stream,
                 captured, output, value, value0, n_fgets, n_pclose, miim_open, lastw, memo,
                 write_failed, exit_code, child_done, othervars>>

\* lines 155-160: one fgets decides rc
WriteFgets ==
  /\ fn = "miim_write" /\ mpc = "fgets"
  /\ FgetsReturns(stream, child_done)
  /\ LET r == Fgets(stream, WriteOutputSize)
     IN /\ stream' = r.rest
        /\ rc' = miim_write_rc(r.line)
  /\ n_fgets' = n_fgets + 1
  /\ mpc' = "pclose"
  /\ UNCHANGED <<envvars, initvars, fn, port_no, addr, wvalue, wreq, command, pipe,
                 captured, output, value, value0, n_popen, n_pclose, miim_open, lastw, memo,
                 write_failed, exit_code, child_done, othervars>>

\* lines 162-164: pclose, return rc
WritePclose ==
  /\ fn = "miim_write" /\ mpc = "pclose"
  /\ child_done
  /\ pipe' = "closed"
  /\ n_pclose' = n_pclose + 1
  /\ miim_open' = miim_open - 1
  /\ mpc' = "ret"
  /\ UNCHANGED <<envvars, initvars, fn, port_no, addr, wvalue, wreq, command, stream,
                 captured, output, value, value0, rc, n_popen, n_fgets, lastw, memo,
                 write_failed, exit_code, child_done, othervars>>

\* where viper_board_init goes on a status other than VTSS_RC_OK, were the
\* status looked at: nowhere
AfterInitWrite_checked(status) == IF status = VTSS_RC_OK THEN "writes" ELSE "failed"

\* lines 246-252: where viper_board_init goes after a miim_write that returned
\* status: to the next statement, the status is dropped
AfterInitWrite(status) == "writes"

\* the caller takes the status and goes on
CallReturn ==
  /\ mpc = "ret"
  /\ lastw' = IF Stubbed /\ fn = "miim_write" /\ rc = VTSS_RC_OK
              THEN [lastw EXCEPT ![<<port_no, addr>>] = <<wvalue>>]
              ELSE lastw
  /\ fn' = "none" /\ mpc' = "idle"
  /\ port_no' = 0 /\ addr' = 0 /\ wvalue' = 0 /\ command' = <<>>
  /\ pipe' = "none" /\ stream' = <<>> /\ captured' = <<>>
  /\ output' = Fresh(TokenEnd) /\ value' = 0 /\ value0' = 0 /\ rc' = 0
  /\ n_popen' = 0 /\ n_fgets' = 0 /\ n_pclose' = 0
  /\ wreq' = 0 /\ exit_code' = 0 /\ child_done' = FALSE
  /\ ipc' = IF app = "init" THEN AfterInitWrite(rc) ELSE ipc
  /\ write_failed' = (write_failed \/ (app = "init" /\ rc # VTSS_RC_OK))
  /\ UNCHANGED <<envvars, app, warm, cb_installed, init_ret, disc_open, disc_stream,
                 test_output, disc_begins, writes, miim_open, memo, othervars>>

Next ==
  \/ BoardInitCall \/ DiscPopenOk \/ DiscPopenFail \/ DiscFgets \/ DiscCheck
  \/ InitWrite \/ InitReturn
  \/ ApiRead \/ ApiWrite
  \/ ReadPopenOk \/ ReadPopenFail \/ ReadFgets \/ ReadParse \/ ReadPclose
  \/ WritePopenOk \/ WritePopenFail \/ WriteFgets \/ WritePclose
  \/ ChildFinish
  \/ CallReturn

Spec == Init /\ [][Next]_vars

\* the same program with the short list of outputs
InitFew ==
  /\ tool = "few"
  /\ stub_fmt = [prefix |-> TRUE, newline |-> TRUE, upper |-> FALSE]
  /\ regs = [k \in RegKeys |-> 0]
  /\ app = "boot"
  /\ warm \in BOOLEAN
  /\ cb_installed = FALSE
  /\ ipc = "none"
  /\ init_ret = <<>>
  /\ disc_open = FALSE
  /\ disc_stream = <<>>
  /\ test_output = Fresh(3)
  /\ disc_begins = FALSE
  /\ writes = <<>>
  /\ NoCall
  /\ miim_open = 0
  /\ lastw = [k \in RegKeys |-> <<>>]
  /\ memo = <<>>
  /\ write_failed = FALSE
  /\ th2 = NoCall2
  /\ MebaEntry /\ callouts_size = "equal"
  /\ RegsIdle

SpecFew == InitFew /\ [][Next]_vars

\* the steps of miim_read and miim_write, but for ReadParse
CallStep ==
  \/ ReadPopenOk \/ ReadPopenFail \/ ReadFgets \/ ReadPclose
  \/ WritePopenOk \/ WritePopenFail \/ WriteFgets \/ WritePclose

\* WF_vars(ReadParse), written with the condition that enables ReadParse:
\* miim_read does not stay in front of line 123 for ever
ParseFair == []<>~(fn = "miim_read" /\ mpc = "parse")

\* the calling thread keeps running, and every child closes its stdout and
\* exits
SpecLive == SpecFew /\ WF_vars(CallStep) /\ ParseFair /\ WF_vars(ChildFinish)

\* CallReturn, with the call and its result kept for comparison with a later
\* call: one call is kept, a call for register 31 of port 0
NoteReturn ==
  /\ mpc = "ret" /\ memo = <<>>
  /\ port_no = 0 /\ addr = 31 /\ wvalue = 0
  /\ memo' = <<[fn |-> fn, port_no |-> port_no, addr |-> addr, wvalue |-> wvalue,
                spawned |-> pipe # "NULL", stdout |-> captured,
                exit_code |-> exit_code, rc |-> rc, value |-> value]>>
  /\ fn' = "none" /\ mpc' = "idle"
  /\ port_no' = 0 /\ addr' = 0 /\ wvalue' = 0 /\ command' = <<>>
  /\ pipe' = "none" /\ stream' = <<>> /\ captured' = <<>>
  /\ output' = Fresh(TokenEnd) /\ value' = 0 /\ value0' = 0 /\ rc' = 0
  /\ n_popen' = 0 /\ n_fgets' = 0 /\ n_pclose' = 0
  /\ wreq' = 0 /\ exit_code' = 0 /\ child_done' = FALSE
  /\ ipc' = IF app = "init" THEN AfterInitWrite(rc) ELSE ipc
  /\ write_failed' = (write_failed \/ (app = "init" /\ rc # VTSS_RC_OK))
  /\ UNCHANGED <<envvars, app, warm, cb_installed, init_ret, disc_open, disc_stream,
                 test_output, disc_begins, writes, miim_open, lastw, othervars>>

NextPair == Next \/ NoteReturn

SpecPair == InitFew /\ [][NextPair]_vars

(***************************************************************************)
(* A second thread of the application calling the same callbacks.  The     *)
(* functions keep everything in locals (lines 94-101, 136-143), so the     *)
(* second call has its own copy, th2; the children of both threads act on  *)
(* the one device, regs.                                                   *)
(***************************************************************************)
\* what the steps of the second thread leave alone
T2Frame ==
  UNCHANGED <<tool, stub_fmt, initvars, callvars, lastw, memo, write_failed, mebavars,
              regvars>>

\* entry of miim_read / miim_write in the second thread
T2Enter(f, p, a, v) ==
  /\ app = "run" /\ cb_installed /\ th2.fn = "none"
  /\ CanEnter(fn)
  /\ th2' = [NoCall2 EXCEPT !.fn = f, !.mpc = "popen", !.port_no = p, !.addr = a,
                            !.wvalue = ToU16(v),
                            !.command = IF f = "miim_read" THEN ReadCommand(p, a)
                                        ELSE WriteCommand(p, a, ToU16(v)),
                            !.rc = RC_ERROR]
  /\ UNCHANGED <<regs, miim_open>>
  /\ T2Frame

T2Read == \E p \in ApiPorts, a \in ApiAddrs : T2Enter("miim_read", p, a, 0)

T2Write == \E p \in ApiPorts, a \in ApiAddrs, v \in ApiValues : T2Enter("miim_write", p, a, v)

\* lines 104, 145, popen succeeds: the child runs the command on the device
T2PopenOk ==
  /\ th2.mpc = "popen"
  /\ th2' = [th2 EXCEPT !.pipe = "open", !.mpc = "fgets",
                        !.stream = StubReply(th2.command, regs, stub_fmt)]
  /\ regs' = StubStore(th2.command, regs)
  /\ miim_open' = miim_open + 1
  /\ T2Frame

\* lines 104-110, 145-151, popen fails
T2PopenFail ==
  /\ th2.mpc = "popen"
  /\ th2' = [th2 EXCEPT !.pipe = "NULL", !.rc = RC_ERROR, !.mpc = "ret"]
  /\ UNCHANGED <<regs, miim_open>>
  /\ T2Frame

\* line 113: one fgets of the loop of miim_read
T2ReadFgets ==
  /\ th2.fn = "miim_read" /\ th2.mpc = "fgets"
  /\ FgetsReturns(th2.stream, th2.child_done)
  /\ LET r == Fgets(th2.stream, OutputSize)
     IN th2' = [th2 EXCEPT !.output = IF r.line # <<>> THEN StoreLine(th2.output, r.line)
                                      ELSE th2.output,
                           !.stream = r.rest,
                           !.mpc = IF r.line # <<>> THEN "fgets" ELSE "parse"]
  /\ UNCHANGED <<regs, miim_open>>
  /\ T2Frame

\* lines 123-128
T2ReadParse ==
  /\ th2.fn = "miim_read" /\ th2.mpc = "parse"
  /\ \E b \in Resolve([th2.output EXCEPT ![TokenEnd] = NUL], FALSE) :
       LET v == hex_string_to_uint16(CString(Cells(b)))
       IN th2' = [th2 EXCEPT !.output = b, !.value = v,
                             !.rc = IF ConversionFailed(v) THEN RC_ERROR ELSE th2.rc,
                             !.mpc = IF ConversionFailed(v) THEN "ret" ELSE "pclose"]
  /\ UNCHANGED <<regs, miim_open>>
  /\ T2Frame

\* lines 155-160: the one fgets of miim_write
T2WriteFgets ==
  /\ th2.fn = "miim_write" /\ th2.mpc = "fgets"
  /\ FgetsReturns(th2.stream, th2.child_done)
  /\ LET r == Fgets(th2.stream, WriteOutputSize)
     IN th2' = [th2 EXCEPT !.stream = r.rest, !.rc = miim_write_rc(r.line),
                           !.mpc = "pclose"]
  /\ UNCHANGED <<regs, miim_open>>
  /\ T2Frame

\* lines 129-131, 162-164: pclose, return
T2Pclose ==
  /\ th2.mpc = "pclose"
  /\ th2.child_done
  /\ th2' = [th2 EXCEPT !.pipe = "closed", !.mpc = "ret",
                        !.rc = IF th2.fn = "miim_read" THEN VTSS_RC_OK ELSE th2.rc]
  /\ miim_open' = miim_open - 1
  /\ UNCHANGED regs
  /\ T2Frame

\* the child of the second thread closes its stdout and exits
T2ChildFinish ==
  /\ th2.pipe = "open" /\ ~th2.child_done
  /\ th2.stream = <<>> \/ th2.mpc = "pclose"
  /\ th2' = [th2 EXCEPT !.child_done = TRUE]
  /\ UNCHANGED <<regs, miim_open>>
  /\ T2Frame

\* the caller in the second thread takes the status and goes on
T2Return ==
  /\ th2.mpc = "ret"
  /\ th2' = NoCall2
  /\ UNCHANGED <<regs, miim_open>>
  /\ T2Frame

\* a running application (viper_board_init has returned on a warm start)
\* with two threads and the stub for a tool
InitMT ==
  /\ tool = "mt"
  /\ stub_fmt = [prefix |-> TRUE, newline |-> FALSE, upper |-> FALSE]
  /\ regs = [k \in RegKeys |-> 0]
  /\ app = "run"
  /\ warm = TRUE
  /\ cb_installed = TRUE
  /\ ipc = "none"
  /\ init_ret = <<0>>
  /\ disc_open = FALSE
  /\ disc_stream = <<>>
  /\ test_output = Fresh(3)
  /\ disc_begins = FALSE
  /\ writes = <<>>
  /\ NoCall
  /\ miim_open = 0
  /\ lastw = [k \in RegKeys |-> <<>>]
  /\ memo = <<>>
  /\ write_failed = FALSE
  /\ th2 = NoCall2
  /\ MebaEntry /\ callouts_size = "equal"
  /\ RegsIdle

NextMT ==
  \/ ApiRead \/ ApiWrite
  \/ ReadPopenOk \/ ReadPopenFail \/ ReadFgets \/ ReadParse \/ ReadPclose
  \/ WritePopenOk \/ WritePopenFail \/ WriteFgets \/ WritePclose
  \/ ChildFinish
  \/ CallReturn
  \/ T2Read \/ T2Write
  \/ T2PopenOk \/ T2PopenFail \/ T2ReadFgets \/ T2ReadParse \/ T2WriteFgets
  \/ T2Pclose \/ T2ChildFinish \/ T2Return

SpecMT == InitMT /\ [][NextMT]_vars

(***************************************************************************)
(* meba_initialize (meba.c lines 138-338) and pcb123_init_board (65-135).  *)
(* The callouts, meba_state_alloc and the mesa_ / mebaux_ functions are    *)
(* the environment: each answers with any status.                          *)
(***************************************************************************)
\* callouts_size against sizeof(*callouts)
Sizes == {"smaller", "equal", "larger"}
\* the statuses a mesa_rc function returns: MESA_RC_OK, and an error
Rcs == {"MESA_RC_OK", "MESA_RC_ERROR"}
\* the names conf_get("board") may store
BoardNames == {"Ocelot Ref (pcb123)", "ung8290", "Ocelot Ref", ""}
\* the values meba_conf_get_u32("mux_mode") may store in i, as numerals
MuxConfs == {"0", "4", "7"}
\* what instance->props.target may show behind a pointer never set
WildTargets == {"MESA_TARGET_7513", "MESA_TARGET_7514", "MESA_TARGET_LAN9668", "garbage"}

Called(f) == calls' = Append(calls, f)

\* the size test passes whatever callouts_size is
SizeTooSmall_never(size) == FALSE

\* line 158: callouts_size < sizeof(*callouts)
SizeTooSmall(size) == size = "smaller"

\* lines 158-163
MebaSizeCheck ==
  /\ mbpc = "size"
  /\ IF SizeTooSmall(callouts_size)
     THEN ret' = <<"NULL">> /\ mbpc' = "done"
     ELSE ret' = ret /\ mbpc' = "conf_get"
  /\ UNCHANGED <<callouts_size, configured, board_name, instance, props, board, api,
                 meba_rc, pcb_rc, mux_conf, answers, calls, bridgevars, regvars>>

\* lines 167-171: conf_get("board", board_name, ...) stores a name, or fails
\* and the function goes on with board_name as it was
MebaConfGet ==
  /\ mbpc = "conf_get"
  /\ \E r \in BoardNames \cup {"fail"} :
       /\ board_name' = IF r = "fail" THEN board_name ELSE <<r>>
       /\ configured' = IF r = "fail" THEN configured ELSE <<r>>
  /\ Called("conf_get")
  /\ mbpc' = "select"
  /\ UNCHANGED <<callouts_size, instance, props, board, api, meba_rc, pcb_rc, mux_conf,
                 answers, ret, bridgevars, regvars>>

\* lines 227-250: the target meba_state_alloc is called with for the name,
\* "none" when it is not called
TargetOf(name) ==
  CASE name = "Ocelot Ref (pcb123)" -> "MESA_TARGET_7514"
    [] name = "ung8290"             -> "MESA_TARGET_LAN9668"
    [] OTHER                        -> "none"
NameOf(name) ==
  IF name = "Ocelot Ref (pcb123)" THEN "My Own VSC7514" ELSE "My Own LAN9668"

\* lines 227-250.  strcmp on a board_name never stored reads whatever the
\* array holds: any name.
MebaStateAlloc ==
  /\ mbpc = "select"
  /\ \E n \in IF board_name = <<>> THEN BoardNames ELSE {board_name[1]} :
       IF TargetOf(n) = "none"
       THEN /\ mbpc' = "assert"
            /\ UNCHANGED <<instance, props, board, api, calls, ret>>
       ELSE /\ Called("meba_state_alloc")
            /\ \E ok \in BOOLEAN :
                 IF ok
                 THEN /\ instance' = "valid"
                      /\ props' = [target |-> TargetOf(n), mux_mode |-> "as_alloc",
                                   board_type |-> <<>>, name |-> NameOf(n)]
                      /\ board' = NoBoard
                      /\ api' = [e \in ApiEntries |-> "as_alloc"]
                      /\ mbpc' = "assert"
                      /\ ret' = ret
                 ELSE /\ ret' = <<"NULL">>
                      /\ mbpc' = "done"
                      /\ UNCHANGED <<instance, props, board, api>>
  /\ UNCHANGED <<callouts_size, configured, board_name, meba_rc, pcb_rc, mux_conf,
                 answers, bridgevars, regvars>>

\* lines 254-255 with the instance of meba_state_alloc
MebaAssert ==
  /\ mbpc = "assert" /\ instance = "valid"
  /\ mbpc' = "mux"
  /\ UNCHANGED <<callouts_size, configured, board_name, instance, props, board, api,
                 meba_rc, pcb_rc, mux_conf, answers, calls, ret, bridgevars, regvars>>

\* lines 254-255 with instance never set: the read of instance->private_data
\* goes through whatever the variable holds.  The process stops there, or
\* goes on with what lies behind that pointer.
MebaWildDeref ==
  /\ mbpc = "assert" /\ instance = "uninit"
  /\ \/ /\ mbpc' = "crashed"
        /\ UNCHANGED <<instance, props, board, api>>
     \/ /\ mbpc' = "mux"
        /\ instance' = "wild"
        /\ \E t \in WildTargets :
             props' = [target |-> t, mux_mode |-> "garbage", board_type |-> <<>>,
                       name |-> "garbage"]
        /\ board' = NoBoard
        /\ api' = [e \in ApiEntries |-> "garbage"]
  /\ UNCHANGED <<callouts_size, configured, board_name, meba_rc, pcb_rc, mux_conf,
                 answers, calls, ret, bridgevars, regvars>>

\* a use of the wild pointer stops the process
MebaCrash ==
  /\ instance = "wild" /\ mbpc \notin {"done", "crashed"}
  /\ mbpc' = "crashed"
  /\ UNCHANGED <<callouts_size, configured, board_name, instance, props, board, api,
                 meba_rc, pcb_rc, mux_conf, answers, calls, ret, bridgevars, regvars>>

\* the defaults given to every target but 7513
MuxMode_one_default(conf, target, old) ==
  IF conf # <<>> THEN conf[1]
  ELSE IF target = "MESA_TARGET_7513" THEN "MESA_PORT_MUX_MODE_0"
  ELSE "MESA_PORT_MUX_MODE_4"

\* lines 257-268: instance->props.mux_mode after them; conf is <<i>> when
\* meba_conf_get_u32 gave i, old is the mode before
MuxMode(conf, target, old) ==
  IF conf # <<>> THEN conf[1]
  ELSE IF target = "MESA_TARGET_7513" THEN "MESA_PORT_MUX_MODE_0"
  ELSE IF target = "MESA_TARGET_7514" THEN "MESA_PORT_MUX_MODE_4"
  ELSE old

\* lines 257-268
MebaMuxMode ==
  /\ mbpc = "mux"
  /\ \E c \in {<<>>} \cup {<<i>> : i \in MuxConfs} :
       /\ mux_conf' = c
       /\ props' = [props EXCEPT !.mux_mode = MuxMode(c, props.target, props.mux_mode)]
  /\ Called("meba_conf_get_u32")
  /\ mbpc' = "miim"
  /\ UNCHANGED <<callouts_size, configured, board_name, instance, board, api, meba_rc,
                 pcb_rc, answers, ret, bridgevars, regvars>>

\* lines 271-275: the two mebaux_gpio_mode_set, and rc = mebaux_miim_rd(...)
MebaMiimRd ==
  /\ mbpc = "miim"
  /\ \E r \in Rcs :
       /\ meba_rc' = r
       /\ answers' = [answers EXCEPT !.miim_rd = r]
  /\ calls' = calls \o <<"mebaux_gpio_mode_set", "mebaux_gpio_mode_set", "mebaux_miim_rd">>
  /\ mbpc' = "hardcoded"
  /\ UNCHANGED <<callouts_size, configured, board_name, instance, props, board, api,
                 pcb_rc, mux_conf, ret, bridgevars, regvars>>

\* lines 280-282
MebaHardcoded ==
  /\ mbpc = "hardcoded"
  /\ board' = [board_type |-> <<BOARD_TYPE_VSC7514_PCB123>>, port_cnt |-> <<PortCnt>>]
  /\ props' = [props EXCEPT !.name = "Ocelot Ref"]
  /\ mbpc' = "pcb_gpio"
  /\ UNCHANGED <<callouts_size, configured, board_name, instance, api, meba_rc, pcb_rc,
                 mux_conf, answers, calls, ret, bridgevars, regvars>>

\* line 296 and pcb123_init_board lines 72-81: eight mesa_gpio_mode_set
Pcb123Gpio ==
  /\ mbpc = "pcb_gpio"
  /\ calls' = calls \o [k \in 1..8 |-> "mesa_gpio_mode_set"]
  /\ mbpc' = "pcb_sgpio_get"
  /\ UNCHANGED <<callouts_size, configured, board_name, instance, props, board, api,
                 meba_rc, pcb_rc, mux_conf, answers, ret, bridgevars, regvars>>

\* mesa_sgpio_conf_set is called whatever mesa_sgpio_conf_get returned
AfterSgpioGet_always_set(r) == "pcb_sgpio_set"

\* line 85: where pcb123_init_board goes on the status r of mesa_sgpio_conf_get
AfterSgpioGet(r) == IF r = "MESA_RC_OK" THEN "pcb_sgpio_set" ELSE "pcb_ret"

\* line 85: rc = mesa_sgpio_conf_get(...)
Pcb123SgpioConfGet ==
  /\ mbpc = "pcb_sgpio_get"
  /\ \E r \in Rcs :
       /\ pcb_rc' = r
       /\ mbpc' = AfterSgpioGet(r)
  /\ Called("mesa_sgpio_conf_get")
  /\ UNCHANGED <<callouts_size, configured, board_name, instance, props, board, api,
                 meba_rc, mux_conf, answers, ret, bridgevars, regvars>>

\* lines 87-132: conf is filled in, (void)mesa_sgpio_conf_set(...)
Pcb123SgpioConfSet ==
  /\ mbpc = "pcb_sgpio_set"
  /\ \E r \in Rcs : answers' = [answers EXCEPT !.sgpio_conf_set = r]
  /\ Called("mesa_sgpio_conf_set")
  /\ mbpc' = "pcb_ret"
  /\ UNCHANGED <<callouts_size, configured, board_name, instance, props, board, api,
                 meba_rc, pcb_rc, mux_conf, ret, bridgevars, regvars>>

\* line 134 and lines 296-301: rc = pcb123_init_board(instance), the test
MebaInitBoardReturn ==
  /\ mbpc = "pcb_ret"
  /\ meba_rc' = pcb_rc
  /\ mbpc' = IF pcb_rc # "MESA_RC_OK" THEN "error_out" ELSE "hook"
  /\ UNCHANGED <<callouts_size, configured, board_name, instance, props, board, api,
                 pcb_rc, mux_conf, answers, calls, ret, bridgevars, regvars>>

\* the table with meba_reset left out
ApiHooked_no_reset(entry) ==
  CASE entry = "meba_capability"     -> "my_own_vsc7514_capability"
    [] entry = "meba_port_entry_get" -> "my_own_vsc7514_port_entry_get_t"
    [] entry = "meba_deinitialize"   -> "meba_deinitialize"
    [] OTHER                         -> "NULL"

\* lines 308-328: the value assigned to an entry
ApiHooked(entry) ==
  CASE entry = "meba_capability"     -> "my_own_vsc7514_capability"
    [] entry = "meba_port_entry_get" -> "my_own_vsc7514_port_entry_get_t"
    [] entry = "meba_reset"          -> "my_own_vsc7514_reset_t"
    [] entry = "meba_deinitialize"   -> "meba_deinitialize"
    [] OTHER                         -> "NULL"

\* lines 302-333
MebaHookUp ==
  /\ mbpc = "hook"
  /\ props' = [props EXCEPT !.board_type = <<"VTSS_BOARD_OCELOT_REF +">> \o board.board_type]
  /\ api' = [e \in ApiEntries |-> IF e \in ApiLeft THEN api[e] ELSE ApiHooked(e)]
  /\ ret' = <<"instance">>
  /\ mbpc' = "done"
  /\ UNCHANGED <<callouts_size, configured, board_name, instance, board, meba_rc,
                 pcb_rc, mux_conf, answers, calls, bridgevars, regvars>>

\* lines 335-337: free(instance), return NULL
MebaErrorOut ==
  /\ mbpc = "error_out"
  /\ Called("free")
  /\ ret' = <<"NULL">>
  /\ mbpc' = "done"
  /\ UNCHANGED <<callouts_size, configured, board_name, instance, props, board, api,
                 meba_rc, pcb_rc, mux_conf, answers, bridgevars, regvars>>

\* viper_board_init is not called: the bridge stays as it is
BridgeAtBoot ==
  /\ tool = "stub"
  /\ stub_fmt = [prefix |-> TRUE, newline |-> TRUE, upper |-> FALSE]
  /\ regs = [k \in RegKeys |-> 0]
  /\ app = "boot"
  /\ warm = FALSE
  /\ cb_installed = FALSE
  /\ ipc = "none"
  /\ init_ret = <<>>
  /\ disc_open = FALSE
  /\ disc_stream = <<>>
  /\ test_output = Fresh(3)
  /\ disc_begins = FALSE
  /\ writes = <<>>
  /\ NoCall
  /\ miim_open = 0
  /\ lastw = [k \in RegKeys |-> <<>>]
  /\ memo = <<>>
  /\ write_failed = FALSE
  /\ th2 = NoCall2

\* meba_initialize is called
InitMeba ==
  /\ BridgeAtBoot
  /\ MebaEntry /\ callouts_size \in Sizes
  /\ RegsIdle

NextMeba ==
  \/ MebaSizeCheck \/ MebaConfGet \/ MebaStateAlloc
  \/ MebaAssert \/ MebaWildDeref \/ MebaCrash
  \/ MebaMuxMode \/ MebaMiimRd \/ MebaHardcoded
  \/ Pcb123Gpio \/ Pcb123SgpioConfGet \/ Pcb123SgpioConfSet
  \/ MebaInitBoardReturn \/ MebaHookUp \/ MebaErrorOut

SpecMeba == InitMeba /\ [][NextMeba]_vars

(***************************************************************************)
(* The register address macros of the targets RB (vtss_laguna_regs_rb.h)   *)
(* and PTP (vtss_laguna_regs_ptp.h).  A row is one #define: ix tells       *)
(* VTSS_IOREG_IX(t, o, gi, gw, ri or 0, ro) from VTSS_IOREG(t, o [+ (ri)]),*)
(* gmax and rmax are the last indices the header documents for gi and ri   *)
(* (0 for a macro without that parameter).                                 *)
(***************************************************************************)
RB_Regs ==
  <<
   [name |-> "VTSS_RB_CPU_CFG", ix |-> FALSE, o |-> 0, gw |-> 0, ro |-> 0, gmax |-> 0, rmax |-> 0],
   [name |-> "VTSS_RB_NETID_CFG", ix |-> FALSE, o |-> 1, gw |-> 0, ro |-> 0, gmax |-> 0, rmax |-> 0],
   [name |-> "VTSS_RB_RB_CFG", ix |-> FALSE, o |-> 2, gw |-> 0, ro |-> 0, gmax |-> 0, rmax |-> 0],
   [name |-> "VTSS_RB_TPID_CFG", ix |-> FALSE, o |-> 3, gw |-> 0, ro |-> 0, gmax |-> 0, rmax |-> 2],
   [name |-> "VTSS_RB_SPV_CFG", ix |-> FALSE, o |-> 6, gw |-> 0, ro |-> 0, gmax |-> 0, rmax |-> 0],
   [name |-> "VTSS_RB_TAXI_IF_CFG", ix |-> FALSE, o |-> 7, gw |-> 0, ro |-> 0, gmax |-> 0, rmax |-> 0],
   [name |-> "VTSS_RB_TBL_CFG", ix |-> TRUE, o |-> 8, gw |-> 5, ro |-> 0, gmax |-> 2, rmax |-> 0],
   [name |-> "VTSS_RB_BPDU_CFG", ix |-> TRUE, o |-> 8, gw |-> 5, ro |-> 1, gmax |-> 2, rmax |-> 0],
   [name |-> "VTSS_RB_FWD_CFG", ix |-> TRUE, o |-> 8, gw |-> 5, ro |-> 2, gmax |-> 2, rmax |-> 0],
   [name |-> "VTSS_RB_PORT_CFG", ix |-> TRUE, o |-> 8, gw |-> 5, ro |-> 3, gmax |-> 2, rmax |-> 0],
   [name |-> "VTSS_RB_STICKY", ix |-> TRUE, o |-> 8, gw |-> 5, ro |-> 4, gmax |-> 2, rmax |-> 0],
   [name |-> "VTSS_RB_CNT_TX", ix |-> TRUE, o |-> 23, gw |-> 7, ro |-> 0, gmax |-> 2, rmax |-> 0],
   [name |-> "VTSS_RB_CNT_RX", ix |-> TRUE, o |-> 23, gw |-> 7, ro |-> 1, gmax |-> 2, rmax |-> 0],
   [name |-> "VTSS_RB_CNT_RX_WRONG_LAN", ix |-> TRUE, o |-> 23, gw |-> 7, ro |-> 2, gmax |-> 2, rmax |-> 0],
   [name |-> "VTSS_RB_CNT_RX_OWN", ix |-> TRUE, o |-> 23, gw |-> 7, ro |-> 3, gmax |-> 2, rmax |-> 0],
   [name |-> "VTSS_RB_CNT_DUPL_ZERO", ix |-> TRUE, o |-> 23, gw |-> 7, ro |-> 4, gmax |-> 2, rmax |-> 0],
   [name |-> "VTSS_RB_CNT_DUPL_ONE", ix |-> TRUE, o |-> 23, gw |-> 7, ro |-> 5, gmax |-> 2, rmax |-> 0],
   [name |-> "VTSS_RB_CNT_DUPL_TWO", ix |-> TRUE, o |-> 23, gw |-> 7, ro |-> 6, gmax |-> 2, rmax |-> 0],
   [name |-> "VTSS_RB_HOST_ACCESS_CTRL", ix |-> FALSE, o |-> 44, gw |-> 0, ro |-> 0, gmax |-> 0, rmax |-> 0],
   [name |-> "VTSS_RB_HOST_ACCESS_CFG_0", ix |-> FALSE, o |-> 45, gw |-> 0, ro |-> 0, gmax |-> 0, rmax |-> 0],
   [name |-> "VTSS_RB_HOST_ACCESS_CFG_1", ix |-> FALSE, o |-> 46, gw |-> 0, ro |-> 0, gmax |-> 0, rmax |-> 0],
   [name |-> "VTSS_RB_HOST_ACCESS_CFG_2", ix |-> FALSE, o |-> 47, gw |-> 0, ro |-> 0, gmax |-> 0, rmax |-> 0],
   [name |-> "VTSS_RB_HOST_ACCESS_STAT_0", ix |-> FALSE, o |-> 48, gw |-> 0, ro |-> 0, gmax |-> 0, rmax |-> 0],
   [name |-> "VTSS_RB_HOST_ACCESS_STAT_1", ix |-> FALSE, o |-> 49, gw |-> 0, ro |-> 0, gmax |-> 0, rmax |-> 0],
   [name |-> "VTSS_RB_HOST_ACCESS_STAT_2", ix |-> FALSE, o |-> 50, gw |-> 0, ro |-> 0, gmax |-> 0, rmax |-> 0],
   [name |-> "VTSS_RB_HOST_ACCESS_STAT_3", ix |-> FALSE, o |-> 51, gw |-> 0, ro |-> 0, gmax |-> 0, rmax |-> 0],
   [name |-> "VTSS_RB_HOST_AUTOAGE_CFG", ix |-> FALSE, o |-> 52, gw |-> 0, ro |-> 0, gmax |-> 0, rmax |-> 1],
   [name |-> "VTSS_RB_HOST_AUTOAGE_CFG_1", ix |-> FALSE, o |-> 54, gw |-> 0, ro |-> 0, gmax |-> 0, rmax |-> 1],
   [name |-> "VTSS_RB_HOST_AUTOAGE_CFG_2", ix |-> FALSE, o |-> 56, gw |-> 0, ro |-> 0, gmax |-> 0, rmax |-> 1],
   [name |-> "VTSS_RB_HOST_EVENT_STICKY", ix |-> FALSE, o |-> 58, gw |-> 0, ro |-> 0, gmax |-> 0, rmax |-> 0],
   [name |-> "VTSS_RB_HOST_LATEST_POS_STATUS", ix |-> FALSE, o |-> 59, gw |-> 0, ro |-> 0, gmax |-> 0, rmax |-> 0],
   [name |-> "VTSS_RB_DISC_ACCESS_CTRL", ix |-> FALSE, o |-> 60, gw |-> 0, ro |-> 0, gmax |-> 0, rmax |-> 0],
   [name |-> "VTSS_RB_DISC_ACCESS_CFG_0", ix |-> FALSE, o |-> 61, gw |-> 0, ro |-> 0, gmax |-> 0, rmax |-> 0],
   [name |-> "VTSS_RB_DISC_ACCESS_CFG_1", ix |-> FALSE, o |-> 62, gw |-> 0, ro |-> 0, gmax |-> 0, rmax |-> 0],
   [name |-> "VTSS_RB_DISC_ACCESS_CFG_2", ix |-> FALSE, o |-> 63, gw |-> 0, ro |-> 0, gmax |-> 0, rmax |-> 0],
   [name |-> "VTSS_RB_DISC_AUTOAGE_CFG", ix |-> FALSE, o |-> 64, gw |-> 0, ro |-> 0, gmax |-> 0, rmax |-> 0],
   [name |-> "VTSS_RB_DISC_AUTOAGE_CFG_1", ix |-> FALSE, o |-> 65, gw |-> 0, ro |-> 0, gmax |-> 0, rmax |-> 0],
   [name |-> "VTSS_RB_DISC_AUTOAGE_CFG_2", ix |-> FALSE, o |-> 66, gw |-> 0, ro |-> 0, gmax |-> 0, rmax |-> 0],
   [name |-> "VTSS_RB_DISC_EVENT_STICKY", ix |-> FALSE, o |-> 67, gw |-> 0, ro |-> 0, gmax |-> 0, rmax |-> 0],
   [name |-> "VTSS_RB_DISC_LATEST_POS_STATUS", ix |-> FALSE, o |-> 68, gw |-> 0, ro |-> 0, gmax |-> 0, rmax |-> 0]
  >>

PTP_Regs ==
  <<
   [name |-> "VTSS_PTP_PTP_PIN_INTR", ix |-> FALSE, o |-> 80, gw |-> 0, ro |-> 0, gmax |-> 0, rmax |-> 0],
   [name |-> "VTSS_PTP_PTP_PIN_INTR_ENA", ix |-> FALSE, o |-> 81, gw |-> 0, ro |-> 0, gmax |-> 0, rmax |-> 0],
   [name |-> "VTSS_PTP_PTP_INTR_IDENT", ix |-> FALSE, o |-> 82, gw |-> 0, ro |-> 0, gmax |-> 0, rmax |-> 0],
   [name |-> "VTSS_PTP_PTP_DOM_CFG", ix |-> FALSE, o |-> 83, gw |-> 0, ro |-> 0, gmax |-> 0, rmax |-> 0],
   [name |-> "VTSS_PTP_CLK_PER_CFG", ix |-> TRUE, o |-> 84, gw |-> 7, ro |-> 0, gmax |-> 2, rmax |-> 1],
   [name |-> "VTSS_PTP_PTP_CUR_NSEC", ix |-> TRUE, o |-> 84, gw |-> 7, ro |-> 2, gmax |-> 2, rmax |-> 0],
   [name |-> "VTSS_PTP_PTP_CUR_NSEC_FRAC", ix |-> TRUE, o |-> 84, gw |-> 7, ro |-> 3, gmax |-> 2, rmax |-> 0],
   [name |-> "VTSS_PTP_PTP_CUR_SEC_LSB", ix |-> TRUE, o |-> 84, gw |-> 7, ro |-> 4, gmax |-> 2, rmax |-> 0],
   [name |-> "VTSS_PTP_PTP_CUR_SEC_MSB", ix |-> TRUE, o |-> 84, gw |-> 7, ro |-> 5, gmax |-> 2, rmax |-> 0],
   [name |-> "VTSS_PTP_NTP_CUR_NSEC", ix |-> TRUE, o |-> 84, gw |-> 7, ro |-> 6, gmax |-> 2, rmax |-> 0],
   [name |-> "VTSS_PTP_PTP_PIN_CFG", ix |-> TRUE, o |-> 0, gw |-> 16, ro |-> 0, gmax |-> 4, rmax |-> 0],
   [name |-> "VTSS_PTP_PTP_TOD_SEC_MSB", ix |-> TRUE, o |-> 0, gw |-> 16, ro |-> 1, gmax |-> 4, rmax |-> 0],
   [name |-> "VTSS_PTP_PTP_TOD_SEC_LSB", ix |-> TRUE, o |-> 0, gw |-> 16, ro |-> 2, gmax |-> 4, rmax |-> 0],
   [name |-> "VTSS_PTP_PTP_TOD_NSEC", ix |-> TRUE, o |-> 0, gw |-> 16, ro |-> 3, gmax |-> 4, rmax |-> 0],
   [name |-> "VTSS_PTP_PTP_TOD_NSEC_FRAC", ix |-> TRUE, o |-> 0, gw |-> 16, ro |-> 4, gmax |-> 4, rmax |-> 0],
   [name |-> "VTSS_PTP_NTP_NSEC", ix |-> TRUE, o |-> 0, gw |-> 16, ro |-> 5, gmax |-> 4, rmax |-> 0],
   [name |-> "VTSS_PTP_PIN_WF_HIGH_PERIOD", ix |-> TRUE, o |-> 0, gw |-> 16, ro |-> 6, gmax |-> 4, rmax |-> 0],
   [name |-> "VTSS_PTP_PIN_WF_LOW_PERIOD", ix |-> TRUE, o |-> 0, gw |-> 16, ro |-> 7, gmax |-> 4, rmax |-> 0],
   [name |-> "VTSS_PTP_PIN_IOBOUNCH_DELAY", ix |-> TRUE, o |-> 0, gw |-> 16, ro |-> 8, gmax |-> 4, rmax |-> 0],
   [name |-> "VTSS_PTP_PTP_TWOSTEP_CTRL", ix |-> FALSE, o |-> 105, gw |-> 0, ro |-> 0, gmax |-> 0, rmax |-> 0],
   [name |-> "VTSS_PTP_PTP_TWOSTEP_STAMP_NSEC", ix |-> FALSE, o |-> 106, gw |-> 0, ro |-> 0, gmax |-> 0, rmax |-> 0],
   [name |-> "VTSS_PTP_PTP_TWOSTEP_STAMP_SUBNS", ix |-> FALSE, o |-> 107, gw |-> 0, ro |-> 0, gmax |-> 0, rmax |-> 0],
   [name |-> "VTSS_PTP_PTP_WRP", ix |-> FALSE, o |-> 108, gw |-> 0, ro |-> 0, gmax |-> 0, rmax |-> 0],
   [name |-> "VTSS_PTP_PHAD_CTRL", ix |-> TRUE, o |-> 109, gw |-> 3, ro |-> 0, gmax |-> 4, rmax |-> 0],
   [name |-> "VTSS_PTP_PHAD_CYC_STAT", ix |-> TRUE, o |-> 109, gw |-> 3, ro |-> 1, gmax |-> 4, rmax |-> 0],
   [name |-> "VTSS_PTP_PHAD_ERR_STAT", ix |-> TRUE, o |-> 109, gw |-> 3, ro |-> 2, gmax |-> 4, rmax |-> 0]
  >>

RegTables == [RB |-> RB_Regs, PTP |-> PTP_Regs]

\* the uses of the macros of target t within the documented index ranges
Accesses(t) ==
  UNION {{[target |-> t, reg |-> k, gi |-> g, ri |-> r] :
            g \in 0..RegTables[t][k].gmax, r \in 0..RegTables[t][k].rmax} :
         k \in 1..Len(RegTables[t])}

\* VTSS_IOREG(t, o): the offset within the target
IOREG(o) == o

\* the same without the group term
IOREG_IX_no_group(o, g, gw, r, ro) == o + ro + r

\* VTSS_IOREG_IX(t, o, g, gw, r, ro): the offset within the target
IOREG_IX(o, g, gw, r, ro) == o + (g * gw) + ro + r

\* the offset the macro of the use a expands to
RegOffset(a) ==
  LET d == RegTables[a.target][a.reg]
  IN IF d.ix THEN IOREG_IX(d.o, a.gi, d.gw, a.ri, d.ro) ELSE IOREG(d.o + a.ri)

RegFrame == UNCHANGED <<reg_a, reg_b, bridgevars, mebavars>>

RegAddrA ==
  /\ reg_a # NoAccess /\ off_a = <<>>
  /\ off_a' = <<RegOffset(reg_a)>>
  /\ off_b' = off_b
  /\ RegFrame

RegAddrB ==
  /\ reg_b # NoAccess /\ off_b = <<>>
  /\ off_b' = <<RegOffset(reg_b)>>
  /\ off_a' = off_a
  /\ RegFrame

\* two uses of macros of one target
InitRegs ==
  /\ BridgeAtBoot
  /\ MebaEntry /\ callouts_size = "equal"
  /\ \E t \in DOMAIN RegTables : reg_a \in Accesses(t) /\ reg_b \in Accesses(t)
  /\ off_a = <<>> /\ off_b = <<>>

NextRegs == RegAddrA \/ RegAddrB

SpecRegs == InitRegs /\ [][NextRegs]_vars

(***************************************************************************)
(* Reference notions the properties are stated with.                       *)
(***************************************************************************)
LowerDigits == <<48, 49, 50, 51, 52, 53, 54, 55, 56, 57, 97, 98, 99, 100, 101, 102>>
UpperDigits == <<48, 49, 50, 51, 52, 53, 54, 55, 56, 57, 65, 66, 67, 68, 69, 70>>

IsHexChar(c) == \E d \in 1..16 : c = LowerDigits[d] \/ c = UpperDigits[d]
RefDigit(c) == (CHOOSE d \in 1..16 : c = LowerDigits[d] \/ c = UpperDigits[d]) - 1

IsHex4(s) == Len(s) = 4 /\ \A i \in 1..4 : IsHexChar(s[i])

\* 4 hex digits, optionally preceded by 0x
IsToken(s) ==
  \/ IsHex4(s)
  \/ Len(s) = 6 /\ s[1] = 48 /\ s[2] = 120 /\ IsHex4(SubSeq(s, 3, 6))

\* the digits of a token read as a big-endian hexadecimal number
TokenValue(s) ==
  LET d == SubSeq(s, Len(s) - 3, Len(s))
  IN 4096 * RefDigit(d[1]) + 256 * RefDigit(d[2]) + 16 * RefDigit(d[3]) + RefDigit(d[4])

\* a token followed by one line break
IsTokenLine(s) ==
  Len(s) >= 1 /\ s[Len(s)] = 10 /\ IsToken(SubSeq(s, 1, Len(s) - 1))

\* the string miim_read hands to hex_string_to_uint16
ParseInput == CString(Cells(output))

\* miim_read holds the converted value
Converted == fn = "miim_read" /\ (mpc = "pclose" \/ (mpc = "ret" /\ pipe # "NULL"))

\* a bridge call returns, its child having been spawned
ReturnsSpawned(f) == fn = f /\ mpc = "ret" /\ pipe # "NULL"

SixWrites ==
  << <<0, 31, 1>>, <<0, 19, 1>>, <<0, 31, 0>>,
     <<3, 31, 1>>, <<3, 19, 1>>, <<3, 31, 0>> >>

(***************************************************************************)
(* Properties.                                                             *)
(***************************************************************************)
\* C1: for every string of exactly 4 hex digits, optionally preceded by 0x,
\* hex_string_to_uint16 returns the digits read as a big-endian 16-bit
\* number, for upper- and lower-case digits alike.
C1_ParsesBigEndian ==
  (Converted /\ IsToken(ParseInput)) => value = TokenValue(ParseInput)

\* C1 witness: "0x9aF0" was converted to 0x9AF0
C1_Witness ==
  /\ Converted
  /\ ParseInput = <<48, 120, 57, 97, 70, 48>>
  /\ value = 39664

\* C2: a string that is not a 4-hex-digit token is never converted to a value
\* that miim_read accepts as a register value: whenever miim_read goes on
\* with the converted value, the string converted was a token.
C2_NonTokenRejected ==
  (fn = "miim_read" /\ mpc = "pclose") => IsToken(ParseInput)

\* C3: when the tool's stdout is one line holding the 4-hex-digit form of v,
\* with or without 0x, miim_read returns VTSS_RC_OK with *value = v.
C3_TokenLineRead ==
  (ReturnsSpawned("miim_read") /\ IsTokenLine(captured))
    => (rc = VTSS_RC_OK /\ value = TokenValue(SubSeq(captured, 1, Len(captured) - 1)))

\* C4: when the child was spawned and its stdout is not a well-formed
\* 4-hex-digit token, miim_read returns a status other than VTSS_RC_OK.
C4_MalformedOutputFails ==
  (ReturnsSpawned("miim_read") /\ ~(IsToken(captured) \/ IsTokenLine(captured)))
    => rc # VTSS_RC_OK

\* C5: when the child was spawned, miim_write returns VTSS_RC_OK if and only
\* if the stdout of the child is empty.
C5_WriteOkIffSilent ==
  ReturnsSpawned("miim_write") => (rc = VTSS_RC_OK <=> captured = <<>>)

\* C5 witness: a single line break on stdout made miim_write fail
C5_Witness ==
  ReturnsSpawned("miim_write") /\ captured = <<10>> /\ rc = RC_ERROR

\* C6: when popen returns NULL, miim_read and miim_write return a failure
\* status, call neither fgets nor pclose, and miim_read leaves *value as it was.
C6_SpawnErrorFails ==
  (mpc = "ret" /\ pipe = "NULL")
    => /\ rc # VTSS_RC_OK
       /\ n_fgets = 0
       /\ n_pclose = 0
       /\ (fn = "miim_read" => value = value0)

\* C6 witness: miim_read returned after a failed popen, *value still 0xBEEF
C6_Witness ==
  /\ fn = "miim_read" /\ mpc = "ret" /\ pipe = "NULL"
  /\ value0 = 48879 /\ value = 48879 /\ rc = RC_ERROR

\* C7: against the stub tool, a miim_read of a register that miim_write
\* wrote v to (whatever was written to other registers since) returns
\* VTSS_RC_OK with *value = v.
C7_RoundTrip ==
  (tool = "stub" /\ fn = "miim_read" /\ mpc = "ret" /\ lastw[<<port_no, addr>>] # <<>>)
    => (rc = VTSS_RC_OK /\ value = lastw[<<port_no, addr>>][1])

\* C8: in a cold start, a miim_write is attempted only if the first four
\* bytes of the discovery output were the header bytes 27, 91, 55, 109.
C8_MismatchAborts ==
  (~warm /\ writes # <<>>) => disc_begins

\* C9: in a cold start whose discovery output begins with the header bytes,
\* initialization is not aborted, the six writes are issued in order, and
\* viper_board_init returns 0.
C9_HeaderProceeds ==
  (~warm /\ disc_begins /\ ipc \notin {"disc_fgets", "disc_check"})
    => /\ app \in {"init", "run"}
       /\ app = "init" => (ipc = "writes" /\ writes = SubSeq(SixWrites, 1, Len(writes)))
       /\ app = "run" => (init_ret = <<0>> /\ writes = SixWrites)

\* C9 witness: a cold start with a matching header returned 0 after six writes
C9_Witness ==
  /\ ~warm /\ disc_begins /\ app = "run"
  /\ init_ret = <<0>> /\ Len(writes) = 6

\* C10: every miim_read / miim_write call makes one popen and, when it
\* succeeded, one pclose before it returns; no pipe of an earlier call is
\* open when a call begins.
C10_OneChildPerCall ==
  /\ mpc = "ret" => /\ n_popen = 1
                    /\ pipe \in {"NULL", "closed"}
                    /\ n_pclose = IF pipe = "NULL" THEN 0 ELSE 1
  /\ mpc \in {"idle", "popen"} => miim_open = 0
  /\ n_popen <= 1 /\ n_pclose <= 1 /\ miim_open <= 1

\* C10 witness: miim_read returned with *value = 0xFFFF, its child reaped
C10_Witness ==
  /\ fn = "miim_read" /\ mpc = "ret" /\ pipe = "closed"
  /\ value = 65535 /\ n_popen = 1 /\ n_pclose = 1 /\ miim_open = 0

(***************************************************************************)
(* C11..C20                                                                *)
(***************************************************************************)
\* the running call has returned, and so had an earlier call with the same
\* function, the same arguments and the same stdout of its child
SameCallAsNoted ==
  /\ mpc = "ret" /\ pipe # "NULL"
  /\ memo # <<>> /\ memo[1].spawned
  /\ memo[1].fn = fn /\ memo[1].port_no = port_no /\ memo[1].addr = addr
  /\ memo[1].wvalue = wvalue
  /\ memo[1].stdout = captured

\* C11: two calls with the same arguments whose children print the same stdout
\* return the same status and the same value, whatever came before them.
C11_Stateless ==
  SameCallAsNoted => (memo[1].rc = rc /\ memo[1].value = value)

\* C12: two calls with the same arguments whose children print the same stdout
\* and exit with different statuses return the same status and the same value.
C12_ExitCodeIgnored ==
  (SameCallAsNoted /\ memo[1].exit_code # exit_code)
    => (memo[1].rc = rc /\ memo[1].value = value)

\* s is the decimal numeral of n: digits only, no leading zero
IsDecimalOf(s, n) ==
  /\ s # <<>>
  /\ \A i \in 1..Len(s) : s[i] \in 48..57
  /\ Len(s) > 1 => s[1] # ASCII.zero
  /\ ParseDec(s, 0) = n

\* the arguments the commands are compared over
CommandTriples == Ports \X (Addrs \cup FewAddrs) \X Values

\* different (port, address, value) give different command lines
CommandsDistinct ==
  \A t \in CommandTriples, u \in CommandTriples :
    /\ WriteCommand(t[1], t[2], t[3]) = WriteCommand(u[1], u[2], u[3]) => t = u
    /\ ReadCommand(t[1], t[2]) = ReadCommand(u[1], u[2]) => (t[1] = u[1] /\ t[2] = u[2])

\* C13: the command line is "sudo mdio gpio-0 phy <port> raw <address>", followed
\* by " <value>" in miim_write, the three numbers in decimal and unchanged, the
\* addresses 0 and 255 and the values 0 and 65535 included; different
\* (port, address, value) give different command lines.
C13_CommandLine ==
  /\ fn # "none" =>
        /\ Len(command) = IF fn = "miim_read" THEN 7 ELSE 8
        /\ SubSeq(command, 1, 4) = <<"sudo", "mdio", "gpio-0", "phy">>
        /\ command[6] = "raw"
        /\ IsDecimalOf(command[5], port_no)
        /\ IsDecimalOf(command[7], addr)
        /\ (fn = "miim_write" /\ wreq \in 0..(U16 - 1)) => IsDecimalOf(command[8], wreq)
  /\ CommandsDistinct

\* C13 witness: miim_write(3, 255, 65535) has spawned "... phy 3 raw 255 65535"
C13_Witness ==
  /\ fn = "miim_write" /\ pipe = "open"
  /\ port_no = 3 /\ addr = 255 /\ wreq = 65535
  /\ command = <<"sudo", "mdio", "gpio-0", "phy", <<51>>, "raw", <<50, 53, 53>>,
                 <<54, 53, 53, 51, 53>>>>

\* miim_write was asked for a value outside 0..65535
OutOfRange == fn = "miim_write" /\ wreq \notin 0..(U16 - 1)

\* C14 as stated: a write request with a value outside 0..65535 is rejected
\* before any subprocess is invoked.
C14_OutOfRangeRejected ==
  OutOfRange => (n_popen = 0 /\ (mpc = "ret" => rc # VTSS_RC_OK))

\* C14: a write request with a value outside 0..65535 is not rejected: the
\* value reaches miim_write reduced modulo 2^16, the command line carries the
\* reduced value in decimal, and the call does not return before popen.
C14_OutOfRangeReduced ==
  OutOfRange =>
    /\ wvalue = wreq % U16
    /\ IsDecimalOf(command[8], wreq % U16)
    /\ mpc = "ret" => n_popen = 1

\* C14 witness: asked for 70000, the child of "... raw 31 4464" has run and
\* miim_write returns VTSS_RC_OK
C14_Witness ==
  /\ fn = "miim_write" /\ wreq = 70000 /\ addr = 31
  /\ mpc = "ret" /\ pipe = "closed" /\ rc = VTSS_RC_OK
  /\ command[8] = <<52, 52, 54, 52>>

\* C15: once the discovery check has passed, viper_board_init issues all six
\* miim_write transactions and returns 0 whatever status each of them returns:
\* a write that returned an error does not stop it.
C15_WriteFailureNotFatal ==
  /\ (app = "init" /\ writes # <<>>) =>
        (ipc = "writes" /\ writes = SubSeq(SixWrites, 1, Len(writes)))
  /\ write_failed => app \in {"init", "run"}
  /\ (app = "run" /\ ~warm) => (init_ret = <<0>> /\ writes = SixWrites)

\* C15 witness: viper_board_init has returned 0 after its six writes, one of
\* which returned an error
C15_Witness ==
  /\ app = "run" /\ fn = "none" /\ write_failed
  /\ init_ret = <<0>> /\ writes = SixWrites

\* C16: every call of miim_read and miim_write returns a status to its caller,
\* given that the child closes its stdout and exits; until then the calling
\* process is the one that made the call, not one that has exited.
C16_CallsReturn ==
  /\ [](fn # "none" => app \in {"init", "run"})
  /\ (fn # "none") ~> (mpc = "ret" /\ rc \in {VTSS_RC_OK, RC_ERROR})

\* C16 witness: a miim_write whose child printed a line and exited has
\* returned an error to the running program
C16_Witness ==
  /\ fn = "miim_write" /\ mpc = "ret" /\ app = "run"
  /\ child_done /\ captured # <<>> /\ rc = RC_ERROR

\* viper_board_init is at the discovery command: before its popen, before its
\* fgets or before the test of its output
AtDiscovery == app = "init" /\ ipc \in {"disc_popen", "disc_fgets", "disc_check"}

\* C17: in a cold start the discovery command is the first subprocess spawned,
\* and no register transaction is spawned before its output has been checked.
C17_DiscoveryFirst ==
  /\ (~warm /\ ~disc_open) => (fn = "none" /\ writes = <<>> /\ miim_open = 0)
  /\ AtDiscovery => (fn = "none" /\ writes = <<>> /\ miim_open = 0)
  /\ app = "boot" => (~disc_open /\ fn = "none" /\ writes = <<>>)

\* C17 witness: the first register command of a cold start runs, the discovery
\* command having run and its output having been checked
C17_Witness ==
  /\ ~warm /\ app = "init" /\ ipc = "writes" /\ disc_open
  /\ fn = "miim_write" /\ pipe = "open" /\ Len(writes) = 1

\* viper_board_init has made its writes and is about to return
InitAtReturn ==
  app = "init" /\ ipc = "writes" /\ fn = "none" /\ Len(writes) = 6

\* C18: after the discovery check the writes are, in this order, (0,31,1),
\* (0,19,1), (0,31,0), (3,31,1), (3,19,1), (3,31,0): each write of register 19
\* comes after 1 and before 0 is written to register 31 of its port, port 0
\* before port 3, six in all; with a tool that stores what is written,
\* register 31 of ports 0 and 3 holds 0 when the function returns.
C18_PageSelectOrder ==
  /\ writes = SubSeq(SixWrites, 1, Len(writes))
  /\ \A i \in 1..Len(writes) :
        writes[i][2] = 19 =>
          /\ i > 1 /\ writes[i - 1] = <<writes[i][1], 31, 1>>
          /\ i < Len(writes) => writes[i + 1] = <<writes[i][1], 31, 0>>
  /\ \A i \in 1..Len(writes), j \in 1..Len(writes) :
        (writes[i][1] = 0 /\ writes[j][1] = 3) => i < j
  /\ (~warm /\ app = "run") => Len(writes) = 6
  /\ (tool = "stub" /\ InitAtReturn) =>
        /\ regs[<<0, 31>>] = 0 /\ regs[<<3, 31>>] = 0
        /\ regs[<<0, 19>>] = 1 /\ regs[<<3, 19>>] = 1

\* C18 witness: the six writes are made and stored by the stub, and
\* viper_board_init is about to return
C18_Witness ==
  /\ tool = "stub" /\ InitAtReturn /\ writes = SixWrites
  /\ regs[<<0, 19>>] = 1 /\ regs[<<3, 19>>] = 1
  /\ regs[<<0, 31>>] = 0 /\ regs[<<3, 31>>] = 0

\* C19: with warm_start_enable TRUE viper_board_init spawns no subprocess,
\* neither the discovery command nor a register write, installs the miim_read
\* and miim_write callbacks all the same, and returns 0.
C19_WarmStart ==
  (warm /\ app # "boot") =>
    /\ app = "run" /\ ipc = "none"
    /\ init_ret = <<0>>
    /\ cb_installed
    /\ ~disc_open /\ writes = <<>> /\ ~write_failed

\* C19 witness: after a warm start the API calls miim_read through the
\* installed callback; no subprocess has been spawned so far
C19_Witness ==
  /\ warm /\ app = "run" /\ init_ret = <<0>> /\ cb_installed
  /\ ~disc_open /\ writes = <<>>
  /\ fn = "miim_read" /\ mpc = "popen" /\ n_popen = 0 /\ miim_open = 0

\* C20: when viper_board_init has returned, every pipe it opened, by itself
\* (the discovery command) or through miim_write, is closed.
C20_PipesClosedAtReturn ==
  init_ret # <<>> =>
    /\ ~disc_open
    /\ fn = "none" => miim_open = 0

(***************************************************************************)
(* C21..C29                                                                *)
(***************************************************************************)
\* C21: the bridge provides no mutual exclusion: while one thread is inside
\* miim_read or miim_write, the other thread can enter either function all
\* the same (so two children can be alive at once, and a write of one thread
\* can fall between the writes of the other thread's page sequence)
C21_NoMutualExclusion ==
  (fn # "none" /\ th2.fn = "none") => (ENABLED T2Read /\ ENABLED T2Write)

\* thread 1 has written page 1 to register 31 and is in its write of
\* register 19, its child alive; the child of thread 2, alive as well, has
\* put register 31 back to 0
C21_Witness ==
  /\ fn = "miim_write" /\ port_no = 0 /\ addr = 19
  /\ pipe = "open" /\ ~child_done
  /\ lastw[<<0, 31>>] = <<1>>
  /\ th2.fn = "miim_write" /\ th2.port_no = 0 /\ th2.addr = 31 /\ th2.wvalue = 0
  /\ th2.pipe = "open" /\ ~th2.child_done
  /\ regs[<<0, 31>>] = 0

\* the lines of a text s, by the positions of their last characters: a line
\* ends with a line break or with the text
LineEnds(s) == {i \in 1..Len(s) : s[i] = ASCII.lf \/ i = Len(s)}
LastLineStart(s) ==
  CHOOSE j \in 1..Len(s) : /\ j = 1 \/ s[j - 1] = ASCII.lf
                           /\ \A k \in (j + 1)..Len(s) : s[k - 1] # ASCII.lf
LastLine(s) == SubSeq(s, LastLineStart(s), Len(s))
CutTo6(l) == IF Len(l) <= 6 THEN l ELSE SubSeq(l, 1, 6)

\* C22: when the child printed several lines, miim_read has read them all
\* when it returns, and the status and *value are those of the last line cut
\* to its first 6 characters: VTSS_RC_OK and hex_string_to_uint16 of them
C22_LastLineOnly ==
  (fn = "miim_read" /\ mpc = "ret" /\ pipe # "NULL"
     /\ Cardinality(LineEnds(captured)) >= 2) =>
    /\ stream = <<>>
    /\ n_fgets = Cardinality(LineEnds(captured)) + 1
    /\ rc = VTSS_RC_OK
    /\ value = hex_string_to_uint16(CutTo6(LastLine(captured)))

\* a word on the first line, the token 0x00a9 on the second: 0x00a9 is
\* returned
C22_Witness ==
  /\ fn = "miim_read" /\ mpc = "ret"
  /\ captured = <<ASCII.z, ASCII.lf>> \o Prefix0x \o <<48, 48, 97, 57, ASCII.lf>>
  /\ value = 169 /\ rc = VTSS_RC_OK

\* meba_initialize is past line 254, where the instance is first used
PastAssert ==
  \/ mbpc \in {"mux", "miim", "hardcoded", "pcb_gpio", "pcb_sgpio_get", "pcb_sgpio_set",
               "pcb_ret", "hook", "error_out", "crashed"}
  \/ ret = <<"instance">>
  \/ \E k \in 1..Len(calls) : calls[k] = "free"

Called_(f) == \E k \in 1..Len(calls) : calls[k] = f

\* C23: meba_initialize uses the instance only after meba_state_alloc has
\* returned it in the same call: past line 254 the pointer is the one
\* meba_state_alloc returned
C23_InstanceFromAlloc ==
  PastAssert => (instance = "valid" /\ Called_("meba_state_alloc"))

\* C24: when meba_initialize returns an instance, the target and the
\* board_type are those of the configured board name
C24_VariantAgrees ==
  ret = <<"instance">> =>
    /\ configured = <<"Ocelot Ref (pcb123)">> =>
         (props.target = "MESA_TARGET_7514"
            /\ board.board_type = <<BOARD_TYPE_VSC7514_PCB123>>)
    /\ configured = <<"ung8290">> =>
         (props.target = "MESA_TARGET_LAN9668"
            /\ board.board_type = <<BOARD_TYPE_LAN9668_UNG8290>>)

\* C25: with callouts_size below the size of the callout table no function is
\* called (conf_get, meba_state_alloc, GPIO, MIIM, SGPIO), no instance
\* exists, and what is returned is NULL
C25_SmallCalloutsRejected ==
  callouts_size = "smaller" =>
    /\ calls = <<>>
    /\ instance = "uninit"
    /\ mbpc \in {"size", "done"}
    /\ mbpc = "done" => ret = <<"NULL">>

C25_Witness == callouts_size = "smaller" /\ mbpc = "done" /\ ret = <<"NULL">>

\* C26: when mesa_sgpio_conf_get has failed, mesa_sgpio_conf_set is not
\* called, no api entry is assigned, and meba_initialize returns NULL after
\* free(instance); when it has succeeded, meba_initialize returns the
\* instance, whatever mesa_sgpio_conf_set and mebaux_miim_rd returned
C26_InitBoardResult ==
  /\ (Called_("mesa_sgpio_conf_get") /\ pcb_rc # "MESA_RC_OK") =>
       /\ ~Called_("mesa_sgpio_conf_set")
       /\ \A e \in ApiEntries : api[e] \in {"as_alloc", "garbage"}
       /\ mbpc = "done" => (ret = <<"NULL">> /\ calls[Len(calls)] = "free")
  /\ (Called_("mesa_sgpio_conf_get") /\ pcb_rc = "MESA_RC_OK" /\ mbpc = "done") =>
       (ret = <<"instance">> /\ ~Called_("free"))

\* the failure after a successful allocation
C26_Witness ==
  /\ instance = "valid" /\ pcb_rc = "MESA_RC_ERROR"
  /\ mbpc = "done" /\ ret = <<"NULL">>

\* C27: when meba_initialize returns an instance, of the api entries it
\* assigns exactly meba_capability, meba_port_entry_get, meba_reset and
\* meba_deinitialize are not NULL, and api_synce, api_tod, api_poe are NULL
C27_ApiTable ==
  ret = <<"instance">> =>
    /\ {e \in ApiAssigned : api[e] # "NULL"} =
         {"meba_capability", "meba_port_entry_get", "meba_reset", "meba_deinitialize"}
    /\ Cardinality({e \in ApiAssigned : api[e] # "NULL"}) = 4
    /\ \A e \in ApiAssigned : api[e] \notin {"as_alloc", "garbage", "none"}
    /\ \A e \in ApiTables : api[e] = "NULL"

C27_Witness == ret = <<"instance">> /\ instance = "valid" /\ api["meba_reset"] # "NULL"

\* C28: after lines 257-268 the mux mode is the configured value when there
\* is one, else MESA_PORT_MUX_MODE_4 for target 7514, MESA_PORT_MUX_MODE_0
\* for target 7513, and for any other target what it was before
C28_MuxMode ==
  Called_("meba_conf_get_u32") =>
    IF mux_conf # <<>> THEN props.mux_mode = mux_conf[1]
    ELSE /\ props.target = "MESA_TARGET_7514" => props.mux_mode = "MESA_PORT_MUX_MODE_4"
         /\ props.target = "MESA_TARGET_7513" => props.mux_mode = "MESA_PORT_MUX_MODE_0"
         /\ props.target \notin {"MESA_TARGET_7514", "MESA_TARGET_7513"} =>
              props.mux_mode = IF instance = "valid" THEN "as_alloc" ELSE "garbage"

\* no configured value, target LAN9668: the mode is as meba_state_alloc left it
C28_Witness ==
  /\ Called_("meba_conf_get_u32") /\ mux_conf = <<>> /\ instance = "valid"
  /\ props.target = "MESA_TARGET_LAN9668" /\ props.mux_mode = "as_alloc"

\* C29: within a target, two different uses of the register macros (two
\* registers, or two indices of one register, in the documented ranges) give
\* different offsets
C29_AddressesInjective ==
  (off_a # <<>> /\ off_b # <<>> /\ reg_a # reg_b) => off_a # off_b

\* two groups of one replicated register, both offsets computed
C29_Witness ==
  /\ off_a # <<>> /\ off_b # <<>>
  /\ reg_a.target = "PTP" /\ reg_a.reg = reg_b.reg /\ reg_a.gi = 0 /\ reg_b.gi = 4
  /\ off_b[1] = off_a[1] + 64

=========================================================================
